---- MODULE Spec2Model ----
(***************************************************************************)
(* Model of the droplet diffusion-limited-aggregation generator            *)
(* (src/src/aggregate.c, src/src/vector.c).                                *)
(*                                                                         *)
(* One aggregate is initialised by aggregate_2d_init / aggregate_3d_init   *)
(* and grown by one call of aggregate_2d_generate / aggregate_3d_generate. *)
(* The walk loop of generate is unrolled into its program points: the      *)
(* spawn of a walker and one loop iteration (step, boundary test, stick    *)
(* test, recording) are the atomic steps.                                  *)
(*                                                                         *)
(* prand() returns rand()/RAND_MAX, a value k/RAND_MAX with k in           *)
(* 0..RAND_MAX.  A draw is modelled by its numerator k, RAND_MAX by the    *)
(* small RandMax, and every comparison of a draw with a constant by exact  *)
(* cross-multiplication.  stickiness is held in the same unit: it is the   *)
(* numerator of stickiness/RAND_MAX, so that prand() > stickiness compares  *)
(* two numerators.                                                          *)
(*                                                                         *)
(* Spec is the generator on a heap that grants every reallocation          *)
(* (oom = FALSE), for one call of generate on a fresh aggregate.           *)
(* SpecCalls adds further calls of generate on the same aggregate,         *)
(* SpecZero is Spec with stickiness 0, SpecWide is Spec on a CIRCLE        *)
(* attractor wider than the walk's bounding box, and SpecLine is the       *)
(* 2D SQUARE / LINE scenario with att_size 5.                              *)
(*                                                                         *)
(* In these specifications a draw is any value of 0..RandMax, so that they *)
(* cover every seed and every generator; rand_state is not advanced.       *)
(* SpecPrng takes the draws of the 2D generator from the stream of rand()  *)
(* instead, next to the srand and rand calls made for a second aggregate.  *)
(*                                                                         *)
(* SpecOom is Spec on a heap that may refuse a reallocation, SpecDescent   *)
(* is the 2D SQUARE / LINE scenario in which the aggregate grows down the  *)
(* y axis, SpecProgress is Spec with disp_prog chosen by the caller (on    *)
(* the SQUARE lattice, with att_size as init sets it),                     *)
(* SpecCancel adds a caller that wishes to stop the run, and SpecVector    *)
(* exercises push_back, reserve and shrink_to_fit on one vector.           *)
(*                                                                         *)
(* SpecSeeded is Spec for the LINE and PLANE attractors.                    *)
(* SpecPoint, SpecSure and SpecRound are Spec for a POINT attractor, for    *)
(* stickiness 1, and for CIRCLE and SPHERE attractors over several calls.  *)
(* SpecFail is a generate call whose reserve calls can fail one by one,    *)
(* SpecFree is the sequence aggregate_alloc, init, aggregate_free, and     *)
(* SpecVectorAll is SpecVector with the two resize functions.              *)
(***************************************************************************)
EXTENDS Integers, Sequences, FiniteSets, TLC

\* ---- bounds of the model ------------------------------------------------
MaxN == 2          \* largest n passed to generate
MaxSteps2D == 7    \* cap on the step attempts of one aggregate_2d_generate call
MaxSteps3D == 3    \* cap on the step attempts of one aggregate_3d_generate call
MaxAttSize == 2    \* largest att_size the caller sets before generate
RandMax == 8       \* stands for RAND_MAX: draws are 0..RandMax
MaxIndet == 7      \* magnitude of the indeterminate coordinates considered
MaxCalls == 2      \* generate calls made on one aggregate in SpecCalls
MaxStepsLine == 8  \* cap on the step attempts of one generate call in SpecLine

\* ---- program constants --------------------------------------------------
VECTOR_INIT_CAPACITY == 8
B_OFFSET == 6
EPSILON == 2

Draws == 0..RandMax

\* the stickiness values considered: about one half (a stick test can fail or
\* pass) and 1, the value set by init (a stick test fails for no draw)
Stickiness == {RandMax \div 2, RandMax}
IndetCoords == {0, MaxIndet}

VARIABLES
    dim,              \* 2 or 3: which of the _2d_ / _3d_ functions is used
    lt, at,           \* agg->lt, agg->at
    stickiness,       \* agg->stickiness, numerator over RandMax
    att_size,         \* agg->att_size
    b_offset,         \* agg->b_offset
    spawn_diam,       \* agg->spawn_diam
    max_x, max_y, max_z, max_r_sqd,
    _aggregate,       \* agg->_aggregate: [capacity, data]
    _attractor,       \* agg->_attractor
    _rsteps,          \* agg->_rsteps
    _bcolls,          \* agg->_bcolls
    oom,              \* TRUE when the heap may refuse a reallocation
    pc,               \* "idle", "loop", "done", "failed"
    n,                \* argument of generate
    curr,             \* local of generate: the walker
    steps_to_stick, bcolls, count, has_next_spawned,
    attempts, reverts,  \* history: step attempts / reverted steps of the walker
    hist,             \* history: one record per stuck walker
    called,           \* history: the last call of the vector interface
    rand_state,       \* the state of the C library generator behind rand()
    seeded,           \* history: the argument of srand in the aggregate's init
    drawn,            \* history: the values of rand() the aggregate consumed
    disp_prog,        \* argument of generate: whether progress is displayed
    stdout,           \* the percentages generate has printed
    stop              \* the caller wants the running generate to stop

\* The local prev of generate is assigned at the top of every iteration before
\* it is read, so it carries nothing from one iteration to the next: it is the
\* field prev of an iteration's result and, for a stick, of its hist record.

aggvars == <<dim, lt, at, stickiness, att_size, b_offset, spawn_diam,
             max_x, max_y, max_z, max_r_sqd>>
vecvars == <<_aggregate, _attractor, _rsteps, _bcolls>>
locvars == <<pc, n, curr, steps_to_stick, bcolls, count, has_next_spawned>>
histvars == <<attempts, reverts, hist, called>>
prngvars == <<rand_state, seeded, drawn>>
iovars == <<disp_prog, stdout, stop>>
vars == <<aggvars, vecvars, oom, locvars, histvars, prngvars, iovars>>

\* ---- arithmetic helpers -------------------------------------------------
\* abs() of <stdlib.h>
abs(v) == IF v < 0 THEN -v ELSE v

\* conversion of the rational num/den (den > 0) to int: truncation toward zero
Trunc(num, den) == IF num >= 0 THEN num \div den ELSE -((-num) \div den)

\* variant of ISqrt that rounds up
ISqrt_Ceil(v) == CHOOSE k \in 0..v : k*k >= v /\ (k = 0 \/ (k-1)*(k-1) < v)

\* (int)sqrt(v) for a non-negative integer v
ISqrt(v) == CHOOSE k \in 0..v : k*k <= v /\ (k+1)*(k+1) > v

\* (int)(s*(prand() - 0.5)) for the draw r
Centered(s, r) == Trunc(s * (2*r - RandMax), 2*RandMax)

\* prand() < num/den for the draw r
DrawLess(r, num, den) == r * den < num * RandMax

\* ---- the random stream -----------------------------------------------------
\* rand(): the successor of the generator state s, which is also the value
\* returned; a full-period linear congruential generator on 0..RandMax
rand(s) == (4 * s + 1) % (RandMax + 1)

\* srand(time(NULL)) of init at time t, before the aggregate has drawn
Seeded(t) == rand_state = t /\ seeded = t /\ drawn = <<>>

\* nothing printed yet, the caller passes disp_prog = false to generate and
\* does not want to stop it
Silent == disp_prog = FALSE /\ stdout = <<>> /\ stop = FALSE

P2(t) == [x |-> t[1], y |-> t[2]]
P3(t) == [x |-> t[1], y |-> t[2], z |-> t[3]]

\* ---- vector.c -----------------------------------------------------------
\* a struct vector: capacity, the size elements of data, and whether the
\* block data points to has been released (realloc with size 0)
vector_alloc == [capacity |-> VECTOR_INIT_CAPACITY, data |-> <<>>,
                 freed |-> FALSE]

vector_size(vec) == Len(vec.data)

vector_at(vec, i) == vec.data[i + 1]

\* private_vector_reallocate: ok tells whether realloc returns a block.
\* realloc(data, 0) either returns an empty block or releases the old block
\* and returns NULL, which the function reports as a failure while data keeps
\* pointing to the released block.  ub: realloc was handed a released block,
\* the behaviour is undefined and the result is one of its outcomes.
private_vector_reallocate(vec, cpty, ok) ==
    IF cpty = vec.capacity THEN [vec |-> vec, rc |-> 0, ub |-> FALSE]
    ELSE IF vec.freed
    THEN IF ok THEN [vec |-> [capacity |-> cpty,
                              data |-> [i \in 1..Len(vec.data) |-> [indet |-> TRUE]],
                              freed |-> FALSE],
                     rc |-> 1, ub |-> TRUE]
         ELSE [vec |-> vec, rc |-> -1, ub |-> TRUE]
    ELSE IF ok THEN [vec |-> [vec EXCEPT !.capacity = cpty], rc |-> 1,
                     ub |-> FALSE]
    ELSE [vec |-> [vec EXCEPT !.freed = (cpty = 0)], rc |-> -1, ub |-> FALSE]

\* vector_push_back: the vector afterwards and the value returned.  The
\* memcpy stores value in element size; when that lies in a released block
\* or past the end of the block (capacity 0, which doubling leaves at 0) the
\* behaviour is undefined and the element holds no determined value.
vector_push_back(vec, value, ok) ==
    LET re == IF vector_size(vec) = vec.capacity
              THEN private_vector_reallocate(vec, vec.capacity * 2, ok)
              ELSE [vec |-> vec, rc |-> 0, ub |-> FALSE]
        outside == re.vec.freed \/ vector_size(vec) >= re.vec.capacity
    IN IF re.rc = -1 THEN [vec |-> vec, rc |-> -1, ub |-> re.ub]
       ELSE [vec |-> [re.vec EXCEPT !.data =
                         Append(@, IF outside THEN [indet |-> TRUE] ELSE value)],
             rc |-> 1, ub |-> re.ub \/ outside]

vector_reserve(vec, cap, ok) ==
    IF cap > vec.capacity THEN private_vector_reallocate(vec, cap, ok)
    ELSE [vec |-> vec, rc |-> 0, ub |-> FALSE]

vector_shrink_to_fit(vec, ok) ==
    private_vector_reallocate(vec, vector_size(vec), ok)

\* no call of the vector interface has been recorded
NoCall == [op |-> "none", arg |-> 0, ret |-> 0, ub |-> FALSE,
           before |-> vector_alloc]

\* the capacity after push_back calls have grown a vector of capacity cap to
\* size total: push_back doubles the capacity whenever size = capacity
GrownCapacity(cap, total) ==
    LET k == CHOOSE e \in 0..total :
                 /\ cap * (2^e) >= total
                 /\ \A d \in 0..(e - 1) : cap * (2^d) < total
    IN cap * (2^k)

\* vector_push_back of every element of values in order, as the loops of
\* init_attractor do (return values ignored), on a vector with a live block of
\* capacity > 0: once a reallocation fails every later push fails too, since
\* size stays equal to capacity
PushAll(vec, values, ok) ==
    LET total == vector_size(vec) + Len(values)
    IN IF total <= vec.capacity THEN [vec EXCEPT !.data = @ \o values]
       ELSE IF ok THEN [capacity |-> GrownCapacity(vec.capacity, total),
                        data |-> vec.data \o values, freed |-> vec.freed]
       ELSE [vec EXCEPT !.data =
                 @ \o SubSeq(values, 1, vec.capacity - vector_size(vec))]

\* ---- attractor seeds ----------------------------------------------------
\* The CIRCLE and SPHERE sweeps of init_attractor evaluate
\* (int)(att_size*cos(theta)) etc. in double arithmetic; the tables hold the
\* values the compiled loops produce for att_size = 1..8 (circle) and 1..3
\* (sphere), in sweep order.
CircleSweep ==
    << <<<<1,0>>,<<0,0>>,<<0,0>>,<<0,0>>,<<0,0>>,<<0,0>>,<<0,0>>,<<0,0>>
        >>,
      <<<<2,0>>,<<1,0>>,<<1,1>>,<<0,1>>,<<0,1>>,<<-1,1>>,<<-1,0>>,<<-1,0>>
        ,<<-1,-1>>,<<0,-1>>,<<0,-1>>,<<1,-1>>,<<1,0>>,<<1,0>>>>,
      <<<<3,0>>,<<2,0>>,<<2,1>>,<<1,2>>,<<0,2>>,<<0,2>>,<<-1,2>>,<<-2,2>>
        ,<<-2,1>>,<<-2,0>>,<<-2,0>>,<<-2,-1>>,<<-1,-2>>,<<-1,-2>>,<<0,-2>>,<<0,-2>>
        ,<<1,-2>>,<<2,-1>>,<<2,0>>,<<2,0>>>>,
      <<<<4,0>>,<<3,0>>,<<3,1>>,<<2,2>>,<<2,3>>,<<1,3>>,<<0,3>>,<<0,3>>
        ,<<-1,3>>,<<-2,3>>,<<-3,2>>,<<-3,1>>,<<-3,0>>,<<-3,0>>,<<-3,-1>>,<<-3,-2>>
        ,<<-2,-3>>,<<-1,-3>>,<<0,-3>>,<<0,-3>>,<<1,-3>>,<<2,-3>>,<<2,-2>>,<<3,-2>>
        ,<<3,-1>>,<<3,0>>,<<3,0>>>>,
      <<<<5,0>>,<<4,0>>,<<4,1>>,<<4,2>>,<<3,3>>,<<2,4>>,<<1,4>>,<<0,4>>
        ,<<0,4>>,<<-1,4>>,<<-2,4>>,<<-2,4>>,<<-3,3>>,<<-4,2>>,<<-4,1>>,<<-4,0>>
        ,<<-4,0>>,<<-4,-1>>,<<-4,-2>>,<<-3,-3>>,<<-3,-3>>,<<-2,-4>>,<<-1,-4>>,<<0,-4>>
        ,<<0,-4>>,<<1,-4>>,<<2,-4>>,<<3,-3>>,<<3,-3>>,<<4,-2>>,<<4,-1>>,<<4,0>>
        ,<<4,0>>>>,
      <<<<6,0>>,<<5,0>>,<<5,1>>,<<5,2>>,<<4,3>>,<<4,4>>,<<3,5>>,<<2,5>>
        ,<<1,5>>,<<0,5>>,<<0,5>>,<<-1,5>>,<<-2,5>>,<<-3,4>>,<<-4,4>>,<<-4,3>>
        ,<<-5,2>>,<<-5,1>>,<<-5,0>>,<<-5,0>>,<<-5,-1>>,<<-5,-2>>,<<-5,-3>>,<<-4,-3>>
        ,<<-3,-4>>,<<-3,-5>>,<<-2,-5>>,<<-1,-5>>,<<0,-5>>,<<0,-5>>,<<1,-5>>,<<2,-5>>
        ,<<3,-4>>,<<4,-4>>,<<4,-3>>,<<5,-2>>,<<5,-1>>,<<5,0>>,<<5,0>>>>,
      <<<<7,0>>,<<6,0>>,<<6,1>>,<<6,2>>,<<5,3>>,<<5,4>>,<<4,5>>,<<3,5>>
        ,<<2,6>>,<<1,6>>,<<0,6>>,<<0,6>>,<<-1,6>>,<<-1,6>>,<<-2,6>>,<<-3,5>>
        ,<<-4,5>>,<<-5,4>>,<<-5,3>>,<<-6,2>>,<<-6,1>>,<<-6,0>>,<<-6,0>>,<<-6,-1>>
        ,<<-6,-1>>,<<-6,-2>>,<<-5,-3>>,<<-5,-4>>,<<-4,-5>>,<<-3,-5>>,<<-2,-6>>,<<-1,-6>>
        ,<<0,-6>>,<<0,-6>>,<<1,-6>>,<<1,-6>>,<<2,-6>>,<<3,-5>>,<<4,-5>>,<<5,-4>>
        ,<<5,-3>>,<<6,-2>>,<<6,-1>>,<<6,0>>,<<6,0>>>>,
      <<<<8,0>>,<<7,0>>,<<7,1>>,<<7,2>>,<<7,3>>,<<6,4>>,<<5,5>>,<<5,6>>
        ,<<4,6>>,<<3,7>>,<<2,7>>,<<1,7>>,<<0,7>>,<<0,7>>,<<-1,7>>,<<-2,7>>
        ,<<-3,7>>,<<-4,6>>,<<-5,6>>,<<-5,5>>,<<-6,4>>,<<-6,3>>,<<-7,3>>,<<-7,2>>
        ,<<-7,1>>,<<-7,0>>,<<-7,0>>,<<-7,-1>>,<<-7,-2>>,<<-7,-3>>,<<-6,-4>>,<<-5,-5>>
        ,<<-5,-6>>,<<-4,-6>>,<<-3,-7>>,<<-2,-7>>,<<-1,-7>>,<<0,-7>>,<<0,-7>>,<<1,-7>>
        ,<<2,-7>>,<<3,-7>>,<<4,-6>>,<<4,-6>>,<<5,-5>>,<<6,-4>>,<<6,-4>>,<<7,-3>>
        ,<<7,-2>>,<<7,-1>>,<<7,0>>,<<7,0>>>> >>

SphereSweep ==
    << <<<<-1,0,0>>,<<0,0,0>>,<<0,0,0>>,<<0,0,0>>,<<0,0,0>>,<<0,0,0>>,<<0,0,0>>,<<0,0,0>>
        ,<<0,0,0>>,<<0,0,0>>,<<0,0,0>>,<<0,0,0>>,<<0,0,0>>,<<0,0,0>>,<<0,0,0>>,<<0,0,0>>
        ,<<0,0,0>>,<<0,0,0>>,<<0,0,0>>,<<0,0,0>>,<<0,0,0>>,<<0,0,0>>,<<0,0,0>>,<<0,0,0>>
        ,<<0,0,0>>,<<0,0,0>>,<<0,0,0>>,<<0,0,0>>,<<0,0,0>>,<<0,0,0>>,<<0,0,0>>,<<0,0,0>>
        ,<<0,0,0>>,<<0,0,0>>,<<0,0,0>>,<<0,0,0>>,<<0,0,0>>,<<0,0,0>>,<<0,0,0>>,<<0,0,0>>
        >>,
      <<<<-2,0,0>>,<<-1,0,0>>,<<-1,0,1>>,<<0,0,1>>,<<0,0,1>>,<<1,0,1>>,<<1,0,0>>,<<1,0,0>>
        ,<<-1,0,0>>,<<-1,0,0>>,<<0,0,1>>,<<0,0,1>>,<<0,0,1>>,<<1,0,1>>,<<1,0,0>>,<<1,0,0>>
        ,<<-1,-1,0>>,<<0,-1,0>>,<<0,0,1>>,<<0,0,1>>,<<0,0,1>>,<<0,1,1>>,<<1,1,0>>,<<1,1,0>>
        ,<<0,-1,0>>,<<0,-1,0>>,<<0,-1,1>>,<<0,0,1>>,<<0,0,1>>,<<0,1,1>>,<<0,1,0>>,<<0,1,0>>
        ,<<0,-1,0>>,<<0,-1,0>>,<<0,0,1>>,<<0,0,1>>,<<0,0,1>>,<<0,1,1>>,<<0,1,0>>,<<0,1,0>>
        ,<<1,-1,0>>,<<1,-1,0>>,<<0,0,1>>,<<0,0,1>>,<<0,0,1>>,<<-1,0,1>>,<<-1,1,0>>,<<-1,1,0>>
        ,<<1,0,0>>,<<1,0,0>>,<<1,0,1>>,<<0,0,1>>,<<0,0,1>>,<<-1,0,1>>,<<-1,0,0>>,<<-1,0,0>>
        ,<<1,0,0>>,<<1,0,0>>,<<1,0,1>>,<<0,0,1>>,<<0,0,1>>,<<-1,0,1>>,<<-1,0,0>>,<<-1,0,0>>
        ,<<1,1,0>>,<<1,1,0>>,<<0,0,1>>,<<0,0,1>>,<<0,0,1>>,<<-1,-1,1>>,<<-1,-1,0>>,<<-1,-1,0>>
        ,<<0,1,0>>,<<0,1,0>>,<<0,1,1>>,<<0,0,1>>,<<0,0,1>>,<<0,-1,1>>,<<0,-1,0>>,<<0,-1,0>>
        ,<<0,1,0>>,<<0,1,0>>,<<0,1,1>>,<<0,0,1>>,<<0,0,1>>,<<0,-1,1>>,<<0,-1,0>>,<<0,-1,0>>
        ,<<-1,1,0>>,<<-1,1,0>>,<<0,0,1>>,<<0,0,1>>,<<0,0,1>>,<<1,-1,1>>,<<1,-1,0>>,<<1,-1,0>>
        ,<<-1,0,0>>,<<-1,0,0>>,<<-1,0,1>>,<<0,0,1>>,<<0,0,1>>,<<1,0,1>>,<<1,0,0>>,<<1,0,0>>
        ,<<-1,0,0>>,<<-1,0,0>>,<<-1,0,1>>,<<0,0,1>>,<<0,0,1>>,<<1,0,1>>,<<1,0,0>>,<<1,0,0>>
        >>,
      <<<<-3,0,0>>,<<-2,0,0>>,<<-2,0,1>>,<<-1,0,2>>,<<0,0,2>>,<<0,0,2>>,<<1,0,2>>,<<2,0,2>>
        ,<<2,0,1>>,<<2,0,0>>,<<2,0,0>>,<<-2,0,0>>,<<-2,0,0>>,<<-2,0,1>>,<<-1,0,2>>,<<0,0,2>>
        ,<<0,0,2>>,<<1,0,2>>,<<1,0,2>>,<<2,0,1>>,<<2,0,0>>,<<2,0,0>>,<<-2,-1,0>>,<<-2,-1,0>>
        ,<<-1,-1,1>>,<<-1,-1,2>>,<<0,0,2>>,<<0,0,2>>,<<0,0,2>>,<<1,1,2>>,<<2,1,1>>,<<2,1,0>>
        ,<<2,1,0>>,<<-1,-2,0>>,<<-1,-2,0>>,<<-1,-1,1>>,<<0,-1,2>>,<<0,0,2>>,<<0,0,2>>,<<0,1,2>>
        ,<<1,1,2>>,<<1,2,1>>,<<1,2,0>>,<<1,2,0>>,<<0,-2,0>>,<<0,-2,0>>,<<0,-2,1>>,<<0,-1,2>>
        ,<<0,0,2>>,<<0,0,2>>,<<0,1,2>>,<<0,2,2>>,<<0,2,1>>,<<0,2,0>>,<<0,2,0>>,<<0,-2,0>>
        ,<<0,-2,0>>,<<0,-2,1>>,<<0,-1,2>>,<<0,0,2>>,<<0,0,2>>,<<0,1,2>>,<<0,2,2>>,<<0,2,1>>
        ,<<0,2,0>>,<<0,2,0>>,<<1,-2,0>>,<<1,-2,0>>,<<0,-2,1>>,<<0,-1,2>>,<<0,0,2>>,<<0,0,2>>
        ,<<0,1,2>>,<<0,1,2>>,<<-1,2,1>>,<<-1,2,0>>,<<-1,2,0>>,<<2,-2,0>>,<<1,-2,0>>,<<1,-1,1>>
        ,<<1,-1,2>>,<<0,0,2>>,<<0,0,2>>,<<0,0,2>>,<<-1,1,2>>,<<-1,1,1>>,<<-2,2,0>>,<<-2,2,0>>
        ,<<2,-1,0>>,<<2,-1,0>>,<<2,-1,1>>,<<1,0,2>>,<<0,0,2>>,<<0,0,2>>,<<-1,0,2>>,<<-1,0,2>>
        ,<<-2,1,1>>,<<-2,1,0>>,<<-2,1,0>>,<<2,0,0>>,<<2,0,0>>,<<2,0,1>>,<<1,0,2>>,<<0,0,2>>
        ,<<0,0,2>>,<<-1,0,2>>,<<-2,0,2>>,<<-2,0,1>>,<<-2,0,0>>,<<-2,0,0>>,<<2,0,0>>,<<2,0,0>>
        ,<<2,0,1>>,<<1,0,2>>,<<0,0,2>>,<<0,0,2>>,<<-1,0,2>>,<<-2,0,2>>,<<-2,0,1>>,<<-2,0,0>>
        ,<<-2,0,0>>,<<2,1,0>>,<<2,1,0>>,<<2,1,1>>,<<1,0,2>>,<<0,0,2>>,<<0,0,2>>,<<-1,0,2>>
        ,<<-1,-1,2>>,<<-2,-1,1>>,<<-2,-1,0>>,<<-2,-1,0>>,<<1,2,0>>,<<1,2,0>>,<<1,1,1>>,<<1,1,2>>
        ,<<0,0,2>>,<<0,0,2>>,<<0,0,2>>,<<-1,-1,2>>,<<-1,-2,1>>,<<-1,-2,0>>,<<-1,-2,0>>,<<1,2,0>>
        ,<<1,2,0>>,<<0,2,1>>,<<0,1,2>>,<<0,0,2>>,<<0,0,2>>,<<0,-1,2>>,<<0,-1,2>>,<<0,-2,1>>
        ,<<-1,-2,0>>,<<-1,-2,0>>,<<0,2,0>>,<<0,2,0>>,<<0,2,1>>,<<0,1,2>>,<<0,0,2>>,<<0,0,2>>
        ,<<0,-1,2>>,<<0,-2,2>>,<<0,-2,1>>,<<0,-2,0>>,<<0,-2,0>>,<<0,2,0>>,<<0,2,0>>,<<0,2,1>>
        ,<<0,1,2>>,<<0,0,2>>,<<0,0,2>>,<<0,-1,2>>,<<0,-1,2>>,<<0,-2,1>>,<<0,-2,0>>,<<0,-2,0>>
        ,<<-1,2,0>>,<<-1,2,0>>,<<-1,1,1>>,<<0,1,2>>,<<0,0,2>>,<<0,0,2>>,<<0,-1,2>>,<<1,-1,2>>
        ,<<1,-2,1>>,<<1,-2,0>>,<<1,-2,0>>,<<-2,1,0>>,<<-2,1,0>>,<<-1,1,1>>,<<-1,0,2>>,<<0,0,2>>
        ,<<0,0,2>>,<<1,0,2>>,<<1,-1,2>>,<<2,-1,1>>,<<2,-1,0>>,<<2,-1,0>>,<<-2,0,0>>,<<-2,0,0>>
        ,<<-2,0,1>>,<<-1,0,2>>,<<0,0,2>>,<<0,0,2>>,<<1,0,2>>,<<1,0,2>>,<<2,0,1>>,<<2,0,0>>
        ,<<2,0,0>>,<<-2,0,0>>,<<-2,0,0>>,<<-2,0,1>>,<<-1,0,2>>,<<0,0,2>>,<<0,0,2>>,<<1,0,2>>
        ,<<2,0,2>>,<<2,0,1>>,<<2,0,0>>,<<2,0,0>>>> >>

\* (size_t)(2.0*M_PI*att_size) + 1U for att_size = 1..8
CircleReserve == <<7, 13, 19, 26, 32, 38, 44, 51>>

\* (size_t)((2*M_PI*att_size + 1)*(M_PI*att_size + 1)) for att_size = 1, 2, 3
SphereReserve == <<30, 98, 206>>

\* variant of Seed2D whose LINE is not centred on the origin
Seed2D_Uncentred(a, size) ==
    CASE a = "POINT" -> << [x |-> 0, y |-> 0] >>
      [] a = "LINE" -> [i \in 1..size |-> [x |-> i - 1, y |-> 0]]
      [] a = "CIRCLE" -> [i \in 1..Len(CircleSweep[size]) |-> P2(CircleSweep[size][i])]
      [] OTHER -> <<>>

\* the particles init_attractor pushes, in push order
Seed2D(a, size) ==
    CASE a = "POINT" -> << [x |-> 0, y |-> 0] >>
      [] a = "LINE" -> [i \in 1..size |-> [x |-> (i - 1) - (size \div 2), y |-> 0]]
      [] a = "CIRCLE" -> [i \in 1..Len(CircleSweep[size]) |-> P2(CircleSweep[size][i])]
      [] OTHER -> <<>>

\* the capacities init_attractor reserves for _attractor and _aggregate
Reserve2D(a, size, nn) ==
    CASE a = "POINT" -> [att |-> size, agg |-> nn + size]
      [] a = "LINE" -> [att |-> size, agg |-> nn + size]
      [] a = "CIRCLE" -> [att |-> CircleReserve[size], agg |-> CircleReserve[size]]
      [] OTHER -> [att |-> 0, agg |-> 0]

\* the pushes of init_attractor: every seed particle goes to both vectors
SeedPush(att, agg, seed, ok) ==
    [att |-> PushAll(att, seed, ok), agg |-> PushAll(agg, seed, ok)]

\* init_attractor proper, given the seed and the two capacities to reserve
init_attractor(att, agg, seed, res, ok) ==
    LET r1 == vector_reserve(att, res.att, ok)
        r2 == vector_reserve(agg, res.agg, ok)
    IN IF r1.rc = -1 THEN [rc |-> -1, att |-> att, agg |-> agg]
       ELSE IF r2.rc = -1 THEN [rc |-> -1, att |-> r1.vec, agg |-> agg]
       ELSE LET p == SeedPush(r1.vec, r2.vec, seed, ok)
            IN [rc |-> 0, att |-> p.att, agg |-> p.agg]

aggregate_2d_init_attractor(nn, ok) ==
    IF at \in {"POINT", "LINE", "CIRCLE"}
    THEN init_attractor(_attractor, _aggregate, Seed2D(at, att_size),
                        Reserve2D(at, att_size, nn), ok)
    ELSE [rc |-> 0, att |-> _attractor, agg |-> _aggregate]

\* aggregate_reserve
aggregate_reserve(nn, ok) ==
    LET r1 == vector_reserve(_rsteps, nn, ok)
        r2 == vector_reserve(_bcolls, nn, ok)
    IN IF r1.rc = -1 THEN [rc |-> -1, rsteps |-> _rsteps, bcolls |-> _bcolls]
       ELSE IF r2.rc = -1 THEN [rc |-> -1, rsteps |-> r1.vec, bcolls |-> _bcolls]
       ELSE [rc |-> 0, rsteps |-> r1.vec, bcolls |-> r2.vec]

\* ---- 2D walker ----------------------------------------------------------
\* a local of generate that has not been assigned yet
Indet == [indet |-> TRUE]

Indeterminate2D == {[x |-> a, y |-> b] : a, b \in IndetCoords}

\* the values a read of the local v can yield
Read2D(v) == IF v = Indet THEN Indeterminate2D ELSE {v}

\* variant of aggregate_2d_spawn_bp whose vertical edges take the opposite sign
aggregate_2d_spawn_bp_Mirrored(c, ppr, r) ==
    CASE at = "POINT" ->
            IF DrawLess(ppr, 1, 2)
            THEN [x |-> Centered(spawn_diam, r),
                  y |-> IF DrawLess(ppr, 1, 4) THEN spawn_diam \div 2
                                               ELSE -(spawn_diam \div 2)]
            ELSE [x |-> IF DrawLess(ppr, 3, 4) THEN -(spawn_diam \div 2)
                                               ELSE spawn_diam \div 2,
                  y |-> Centered(spawn_diam, r)]
      [] at = "LINE" ->
            [x |-> 2 * Centered(att_size, r),
             y |-> IF DrawLess(ppr, 1, 2) THEN spawn_diam ELSE -spawn_diam]
      [] OTHER -> c

\* aggregate_2d_spawn_bp: ppr is the first draw, r the second
aggregate_2d_spawn_bp(c, ppr, r) ==
    CASE at = "POINT" ->
            IF DrawLess(ppr, 1, 2)
            THEN [x |-> Centered(spawn_diam, r),
                  y |-> IF DrawLess(ppr, 1, 4) THEN spawn_diam \div 2
                                               ELSE -(spawn_diam \div 2)]
            ELSE [x |-> IF DrawLess(ppr, 3, 4) THEN spawn_diam \div 2
                                               ELSE -(spawn_diam \div 2),
                  y |-> Centered(spawn_diam, r)]
      [] at = "LINE" ->
            [x |-> 2 * Centered(att_size, r),
             y |-> IF DrawLess(ppr, 1, 2) THEN spawn_diam ELSE -spawn_diam]
      [] OTHER -> c

\* variant of aggregate_2d_update_bp whose first SQUARE branch advances x by 2
aggregate_2d_update_bp_Jump(c, md) ==
    CASE lt = "SQUARE" ->
            IF DrawLess(md, 1, 4) THEN [c EXCEPT !.x = @ + 2]
            ELSE IF DrawLess(md, 2, 4) THEN [c EXCEPT !.x = @ - 1]
            ELSE IF DrawLess(md, 3, 4) THEN [c EXCEPT !.y = @ + 1]
            ELSE [c EXCEPT !.y = @ - 1]
      [] lt = "TRIANGLE" ->
            IF DrawLess(md, 1, 6) THEN [c EXCEPT !.x = @ + 1]
            ELSE IF DrawLess(md, 2, 6) THEN [c EXCEPT !.x = @ - 1]
            ELSE IF DrawLess(md, 3, 6) THEN [x |-> c.x + 1, y |-> c.y + 1]
            ELSE IF DrawLess(md, 4, 6) THEN [x |-> c.x + 1, y |-> c.y - 1]
            ELSE IF DrawLess(md, 5, 6) THEN [x |-> c.x - 1, y |-> c.y + 1]
            ELSE [x |-> c.x - 1, y |-> c.y - 1]

\* aggregate_2d_update_bp: md is the draw
aggregate_2d_update_bp(c, md) ==
    CASE lt = "SQUARE" ->
            IF DrawLess(md, 1, 4) THEN [c EXCEPT !.x = @ + 1]
            ELSE IF DrawLess(md, 2, 4) THEN [c EXCEPT !.x = @ - 1]
            ELSE IF DrawLess(md, 3, 4) THEN [c EXCEPT !.y = @ + 1]
            ELSE [c EXCEPT !.y = @ - 1]
      [] lt = "TRIANGLE" ->
            IF DrawLess(md, 1, 6) THEN [c EXCEPT !.x = @ + 1]
            ELSE IF DrawLess(md, 2, 6) THEN [c EXCEPT !.x = @ - 1]
            ELSE IF DrawLess(md, 3, 6) THEN [x |-> c.x + 1, y |-> c.y + 1]
            ELSE IF DrawLess(md, 4, 6) THEN [x |-> c.x + 1, y |-> c.y - 1]
            ELSE IF DrawLess(md, 5, 6) THEN [x |-> c.x - 1, y |-> c.y + 1]
            ELSE [x |-> c.x - 1, y |-> c.y - 1]

\* aggregate_2d_lattice_collision: the position left in curr and the value
\* returned
aggregate_2d_lattice_collision(c, p) ==
    IF at \in {"POINT", "CIRCLE"}
    THEN LET bnd_absmax == (spawn_diam + 2 * EPSILON) \div 2
         IN IF abs(c.x) > bnd_absmax \/ abs(c.y) > bnd_absmax
            THEN [curr |-> p, ret |-> TRUE]
            ELSE [curr |-> c, ret |-> FALSE]
    ELSE IF at = "LINE"
    THEN IF abs(c.x) > 2 * att_size \/ abs(c.y) > spawn_diam + EPSILON
         THEN [curr |-> p, ret |-> FALSE]
         ELSE [curr |-> c, ret |-> FALSE]
    ELSE [curr |-> c, ret |-> FALSE]

\* variant of StickRejected that also rejects a draw equal to stickiness
StickRejected_AtLeast(u) == u >= stickiness

\* prand() > agg->stickiness for the draw u
StickRejected(u) == u > stickiness

\* one draw for every outcome of the stick test: the draws whose outcome
\* differs from the outcome of the draw just below
StickDraws ==
    {u \in Draws : u = 0 \/ StickRejected(u) # StickRejected(u - 1)}

\* one draw for every side a spawn can choose: spawn_bp reads its first draw
\* through the comparisons prand() < j/den only, so a draw that compares as
\* the draw just below is left out
FaceDraws(den) ==
    {p \in Draws : p = 0 \/ \E j \in 1..(den - 1) :
                               DrawLess(p, j, den) # DrawLess(p - 1, j, den)}

\* one draw for every coordinate a spawn can place: spawn_bp reads its other
\* draws through (int)(spawn_diam*(prand() - 0.5)) and
\* (int)(att_size*(prand() - 0.5)) only
CenterDraws ==
    {r \in Draws : \/ r = 0
                   \/ Centered(spawn_diam, r) # Centered(spawn_diam, r - 1)
                   \/ Centered(att_size, r) # Centered(att_size, r - 1)}

\* one draw for every step aggregate_2d_update_bp can take from c: the draws
\* whose step differs from the step of the draw just below
StepDraws2D(c) ==
    LET taken == {<<v, aggregate_2d_update_bp(c, v)>> : v \in Draws}
    IN {a[1] : a \in {a \in taken : a[1] = 0 \/ <<a[1] - 1, a[2]>> \notin taken}}

\* variant of ExtentUpdate that assigns without comparing
ExtentUpdate_Assign(m, v) == abs(v)

\* the extent bookkeeping of a stick: if (abs(v) > m) m = abs(v)
ExtentUpdate(m, v) == IF abs(v) > m THEN abs(v) ELSE m

\* variant of collision_2d whose squared radius leaves out the y term
collision_2d_RadiusX(c, p, u, ok, pushed) ==
    LET none == [ret |-> FALSE, agg |-> _aggregate, max_x |-> max_x,
                 max_y |-> max_y, max_z |-> max_z, max_r_sqd |-> max_r_sqd,
                 spawn_diam |-> spawn_diam]
        expand_spawn_line == abs(p.y) > max_y
        rsqd == p.x * p.x
    IN IF StickRejected(u) THEN none
       ELSE IF \A i \in 0..(vector_size(_aggregate) - 1) :
                    vector_at(_aggregate, i) # c THEN none
       ELSE [ret |-> TRUE,
             agg |-> vector_push_back(_aggregate, pushed, ok).vec,
             max_x |-> ExtentUpdate(max_x, p.x),
             max_y |-> ExtentUpdate(max_y, p.y),
             max_z |-> max_z,
             max_r_sqd |-> IF at = "POINT" /\ rsqd > max_r_sqd
                           THEN rsqd ELSE max_r_sqd,
             spawn_diam |->
                 IF at = "POINT" /\ rsqd > max_r_sqd
                 THEN 2 * ISqrt(rsqd) + b_offset
                 ELSE IF at = "LINE" /\ expand_spawn_line
                 THEN p.y + b_offset   \* p.y signed, not abs(p.y)
                 ELSE spawn_diam]

\* variant of collision_2d that records the extent of prev in x before it looks
\* for a coincident particle
collision_2d_EagerExtent(c, p, u, ok, pushed) ==
    LET none == [ret |-> FALSE, agg |-> _aggregate, max_x |-> max_x,
                 max_y |-> max_y, max_z |-> max_z, max_r_sqd |-> max_r_sqd,
                 spawn_diam |-> spawn_diam]
        expand_spawn_line == abs(p.y) > max_y
        rsqd == p.x * p.x + p.y * p.y
    IN IF StickRejected(u) THEN none
       ELSE IF \A i \in 0..(vector_size(_aggregate) - 1) :
                    vector_at(_aggregate, i) # c
       THEN [none EXCEPT !.max_x = ExtentUpdate(max_x, p.x)]
       ELSE [ret |-> TRUE,
             agg |-> vector_push_back(_aggregate, pushed, ok).vec,
             max_x |-> ExtentUpdate(max_x, p.x),
             max_y |-> ExtentUpdate(max_y, p.y),
             max_z |-> max_z,
             max_r_sqd |-> IF at = "POINT" /\ rsqd > max_r_sqd
                           THEN rsqd ELSE max_r_sqd,
             spawn_diam |->
                 IF at = "POINT" /\ rsqd > max_r_sqd
                 THEN 2 * ISqrt(rsqd) + b_offset
                 ELSE IF at = "LINE" /\ expand_spawn_line
                 THEN p.y + b_offset
                 ELSE spawn_diam]

\* aggregate_2d_collision with the pushed position as a parameter
collision_2d(c, p, u, ok, pushed) ==
    LET none == [ret |-> FALSE, agg |-> _aggregate, max_x |-> max_x,
                 max_y |-> max_y, max_z |-> max_z, max_r_sqd |-> max_r_sqd,
                 spawn_diam |-> spawn_diam]
        expand_spawn_line == abs(p.y) > max_y
        rsqd == p.x * p.x + p.y * p.y
    IN IF StickRejected(u) THEN none
       ELSE IF \A i \in 0..(vector_size(_aggregate) - 1) :
                    vector_at(_aggregate, i) # c THEN none
       ELSE [ret |-> TRUE,
             agg |-> vector_push_back(_aggregate, pushed, ok).vec,
             max_x |-> ExtentUpdate(max_x, p.x),
             max_y |-> ExtentUpdate(max_y, p.y),
             max_z |-> max_z,
             max_r_sqd |-> IF at = "POINT" /\ rsqd > max_r_sqd
                           THEN rsqd ELSE max_r_sqd,
             spawn_diam |->
                 IF at = "POINT" /\ rsqd > max_r_sqd
                 THEN 2 * ISqrt(rsqd) + b_offset
                 ELSE IF at = "LINE" /\ expand_spawn_line
                 THEN p.y + b_offset   \* p.y signed, not abs(p.y)
                 ELSE spawn_diam]

\* variant of aggregate_2d_collision that pushes curr instead of prev
aggregate_2d_collision_PushCurr(c, p, u, ok) == collision_2d(c, p, u, ok, c)

aggregate_2d_collision(c, p, u, ok) == collision_2d(c, p, u, ok, p)

\* ---- initialisation -----------------------------------------------------
\* the (dim, attractor) pairs the generator supports
Attractors(d) == IF d = 2 THEN {"POINT", "LINE", "CIRCLE"}
                 ELSE {"POINT", "LINE", "CIRCLE", "SPHERE", "PLANE"}

\* the state after aggregate_2d_init / aggregate_3d_init succeeded and the
\* caller chose att_size
Init ==
    /\ dim \in {2, 3}
    /\ lt \in {"SQUARE", "TRIANGLE"}
    /\ at \in Attractors(dim)
    /\ stickiness \in Stickiness
    /\ att_size \in IF at = "POINT" THEN {1} ELSE {1, MaxAttSize}
    /\ b_offset = B_OFFSET
    /\ spawn_diam = B_OFFSET
    /\ max_x = 0 /\ max_y = 0 /\ max_z = 0 /\ max_r_sqd = 0
    /\ _aggregate = vector_alloc /\ _attractor = vector_alloc
    /\ _rsteps = vector_alloc /\ _bcolls = vector_alloc
    /\ oom = FALSE
    /\ pc = "idle" /\ n = 0
    /\ curr = Indet
    /\ steps_to_stick = 0 /\ bcolls = 0 /\ count = 0
    /\ has_next_spawned = FALSE
    /\ attempts = 0 /\ reverts = 0 /\ hist = <<>> /\ called = NoCall
    /\ Seeded(0)
    /\ Silent

\* the part of the initial state that does not depend on the configuration
Fresh ==
    /\ b_offset = B_OFFSET
    /\ spawn_diam = B_OFFSET
    /\ max_x = 0 /\ max_y = 0 /\ max_z = 0 /\ max_r_sqd = 0
    /\ _aggregate = vector_alloc /\ _attractor = vector_alloc
    /\ _rsteps = vector_alloc /\ _bcolls = vector_alloc
    /\ oom = FALSE
    /\ pc = "idle" /\ n = 0
    /\ curr = Indet
    /\ steps_to_stick = 0 /\ bcolls = 0 /\ count = 0
    /\ has_next_spawned = FALSE
    /\ attempts = 0 /\ reverts = 0 /\ hist = <<>> /\ called = NoCall
    /\ Seeded(0)
    /\ Silent

\* init followed by the caller choosing a CIRCLE attractor whose radius reaches
\* beyond the bounding box of the walk, (spawn_diam / 2) + EPSILON = 5
InitWide ==
    /\ dim \in {2, 3}
    /\ lt \in {"SQUARE", "TRIANGLE"}
    /\ at = "CIRCLE"
    /\ stickiness \in Stickiness
    /\ att_size = MaxIndet
    /\ Fresh

\* the outcomes a reallocation can have
AllocOutcomes == IF oom THEN BOOLEAN ELSE {TRUE}

\* ---- the generate loop, common to both dimensionalities -----------------
\* the step attempts made so far in this call of generate
RECURSIVE SeqSum(_)
SeqSum(q) == IF q = <<>> THEN 0 ELSE Head(q) + SeqSum(Tail(q))

StepsMade == SeqSum(_rsteps.data) + steps_to_stick

\* if (disp_prog) { printf("\rProgress: %d%%", (int)(100*count/n)); ... } for
\* the incremented count cnt: what stdout holds afterwards
generate_progress(dp, cnt, out) ==
    IF dp THEN Append(out, (100 * cnt) \div n) ELSE out

\* variant of generate_record that omits the push to _bcolls
generate_record_NoBcolls(dp, stuck, steps, bc, ok) ==
    IF stuck
    THEN [rsteps |-> vector_push_back(_rsteps, steps, ok).vec,
          bcolls |-> _bcolls,
          steps_to_stick |-> 0, bc |-> 0, count |-> count + 1,
          has_next_spawned |-> FALSE,
          out |-> generate_progress(dp, count + 1, stdout)]
    ELSE [rsteps |-> _rsteps, bcolls |-> _bcolls,
          steps_to_stick |-> steps, bc |-> bc, count |-> count,
          has_next_spawned |-> TRUE, out |-> stdout]

\* variant of generate_record that does not restart the step counter
generate_record_NoReset(dp, stuck, steps, bc, ok) ==
    IF stuck
    THEN [rsteps |-> vector_push_back(_rsteps, steps, ok).vec,
          bcolls |-> vector_push_back(_bcolls, bc, ok).vec,
          steps_to_stick |-> steps, bc |-> 0, count |-> count + 1,
          has_next_spawned |-> FALSE,
          out |-> generate_progress(dp, count + 1, stdout)]
    ELSE [rsteps |-> _rsteps, bcolls |-> _bcolls,
          steps_to_stick |-> steps, bc |-> bc, count |-> count,
          has_next_spawned |-> TRUE, out |-> stdout]

\* variant of generate_record that counts a stuck walker twice
generate_record_DoubleCount(dp, stuck, steps, bc, ok) ==
    IF stuck
    THEN [rsteps |-> vector_push_back(_rsteps, steps, ok).vec,
          bcolls |-> vector_push_back(_bcolls, bc, ok).vec,
          steps_to_stick |-> 0, bc |-> 0, count |-> count + 2,
          has_next_spawned |-> FALSE,
          out |-> generate_progress(dp, count + 1, stdout)]
    ELSE [rsteps |-> _rsteps, bcolls |-> _bcolls,
          steps_to_stick |-> steps, bc |-> bc, count |-> count,
          has_next_spawned |-> TRUE, out |-> stdout]

\* variant of generate_record whose progress display advances count as well
generate_record_ShownCounts(dp, stuck, steps, bc, ok) ==
    IF stuck
    THEN [rsteps |-> vector_push_back(_rsteps, steps, ok).vec,
          bcolls |-> vector_push_back(_bcolls, bc, ok).vec,
          steps_to_stick |-> 0, bc |-> 0,
          count |-> IF dp THEN count + 2 ELSE count + 1,
          has_next_spawned |-> FALSE,
          out |-> generate_progress(dp, count + 1, stdout)]
    ELSE [rsteps |-> _rsteps, bcolls |-> _bcolls,
          steps_to_stick |-> steps, bc |-> bc, count |-> count,
          has_next_spawned |-> TRUE, out |-> stdout]

\* what generate does with the result of the stick test (the body of
\* if (aggregate_*_collision(...)) and its fall-through)
generate_record(dp, stuck, steps, bc, ok) ==
    IF stuck
    THEN [rsteps |-> vector_push_back(_rsteps, steps, ok).vec,
          bcolls |-> vector_push_back(_bcolls, bc, ok).vec,
          steps_to_stick |-> 0, bc |-> 0, count |-> count + 1,
          has_next_spawned |-> FALSE,
          out |-> generate_progress(dp, count + 1, stdout)]
    ELSE [rsteps |-> _rsteps, bcolls |-> _bcolls,
          steps_to_stick |-> steps, bc |-> bc, count |-> count,
          has_next_spawned |-> TRUE, out |-> stdout]

\* entry of generate up to the first test of the loop condition; ini is the
\* result of init_attractor
Enter(nn, res, ini) ==
    /\ n' = nn
    /\ IF res.rc = -1
       THEN /\ pc' = "failed"
            /\ _rsteps' = res.rsteps /\ _bcolls' = res.bcolls
            /\ UNCHANGED <<_aggregate, _attractor>>
       ELSE /\ _rsteps' = res.rsteps /\ _bcolls' = res.bcolls
            /\ _attractor' = ini.att /\ _aggregate' = ini.agg
            /\ pc' = IF ini.rc = -1 THEN "failed"
                     ELSE IF nn = 0 THEN "done" ELSE "loop"
    /\ steps_to_stick' = 0 /\ bcolls' = 0 /\ count' = 0
    /\ has_next_spawned' = FALSE
    /\ UNCHANGED <<aggvars, oom, curr, histvars, prngvars, iovars>>

\* the assignments of one loop iteration whose result is it
Commit(it) ==
    LET rv == IF it.reverted THEN reverts + 1 ELSE reverts
    IN /\ curr' = it.curr
       /\ _aggregate' = it.col.agg
       /\ max_x' = it.col.max_x /\ max_y' = it.col.max_y
       /\ max_z' = it.col.max_z
       /\ max_r_sqd' = it.col.max_r_sqd
       /\ spawn_diam' = it.col.spawn_diam
       /\ _rsteps' = it.rec.rsteps /\ _bcolls' = it.rec.bcolls
       /\ steps_to_stick' = it.rec.steps_to_stick
       /\ bcolls' = it.rec.bc
       /\ count' = it.rec.count
       /\ has_next_spawned' = it.rec.has_next_spawned
       /\ pc' = IF it.rec.count < n THEN "loop" ELSE "done"
       /\ attempts' = IF it.col.ret THEN 0 ELSE attempts + 1
       /\ reverts' = IF it.col.ret THEN 0 ELSE rv
       /\ hist' = IF it.col.ret
                  THEN Append(hist, [prev |-> it.prev,
                                     attempts |-> attempts + 1, reverts |-> rv])
                  ELSE hist
       /\ stdout' = it.rec.out
       /\ UNCHANGED <<dim, lt, at, stickiness, att_size, b_offset,
                      _attractor, oom, n, disp_prog, stop, called>>

\* ---- aggregate_2d_generate ----------------------------------------------
Generate2D ==
    /\ pc = "idle" /\ dim = 2
    /\ \E nn \in 0..MaxN, ok \in AllocOutcomes :
         Enter(nn, aggregate_reserve(nn, ok), aggregate_2d_init_attractor(nn, ok))

\* if (!has_next_spawned) { aggregate_2d_spawn_bp(agg, &curr); ... }
Spawn2D ==
    /\ pc = "loop" /\ dim = 2 /\ count < n /\ ~has_next_spawned
    /\ \E c \in {aggregate_2d_spawn_bp(curr, ppr, r) :
                 ppr \in FaceDraws(4), r \in CenterDraws} : curr' = c
    /\ has_next_spawned' = TRUE
    /\ UNCHANGED <<aggvars, vecvars, oom, pc, n, steps_to_stick, bcolls,
                   count, histvars, prngvars, iovars>>

\* variant of iterate_2d that counts a step attempt only when it was not
\* reverted at the boundary
iterate_2d_StepsOnMove(p, md, u, ok) ==
    LET stepped == aggregate_2d_update_bp(p, md)
        lc == aggregate_2d_lattice_collision(stepped, p)
        bc == IF lc.ret THEN bcolls + 1 ELSE bcolls
        steps == IF lc.ret THEN steps_to_stick ELSE steps_to_stick + 1
        col == aggregate_2d_collision(lc.curr, p, u, ok)
        rec == generate_record(disp_prog, col.ret, steps, bc, ok)
    IN [prev |-> p, curr |-> lc.curr, reverted |-> (lc.curr # stepped),
        col |-> col, rec |-> rec]

\* the body of the while loop of aggregate_2d_generate after the spawn, for
\* the position p read from curr and the draws md (step) and u (stick test)
iterate_2d(p, md, u, ok) ==
    LET stepped == aggregate_2d_update_bp(p, md)
        lc == aggregate_2d_lattice_collision(stepped, p)
        bc == IF lc.ret THEN bcolls + 1 ELSE bcolls
        steps == steps_to_stick + 1
        col == aggregate_2d_collision(lc.curr, p, u, ok)
        rec == generate_record(disp_prog, col.ret, steps, bc, ok)
    IN [prev |-> p, curr |-> lc.curr, reverted |-> (lc.curr # stepped),
        col |-> col, rec |-> rec]

\* one iteration of the while loop of aggregate_2d_generate
Walk2D ==
    /\ pc = "loop" /\ dim = 2 /\ count < n /\ has_next_spawned
    /\ StepsMade < MaxSteps2D
    /\ \E ok \in AllocOutcomes :
       \E p \in Read2D(curr) :
       \E md \in StepDraws2D(p), u \in StickDraws :
          Commit(iterate_2d(p, md, u, ok))
    /\ UNCHANGED prngvars

\* ---- 3D attractor seeds and walker -------------------------------------
\* variant of Seed3D whose PLANE loops are nested the other way round
Seed3D_JOuter(a, size) ==
    CASE a = "POINT" -> << [x |-> 0, y |-> 0, z |-> 0] >>
      [] a = "LINE" ->
            [i \in 1..size |-> [x |-> (i - 1) - (size \div 2), y |-> 0, z |-> 0]]
      [] a = "PLANE" ->
            [k \in 1..(size * size) |->
                [x |-> ((k - 1) % size) - (size \div 2),
                 y |-> ((k - 1) \div size) - (size \div 2),
                 z |-> 0]]
      [] a = "CIRCLE" ->
            [i \in 1..Len(CircleSweep[size]) |->
                [x |-> CircleSweep[size][i][1], y |-> CircleSweep[size][i][2],
                 z |-> 0]]
      [] a = "SPHERE" ->
            [i \in 1..Len(SphereSweep[size]) |-> P3(SphereSweep[size][i])]

\* the particles aggregate_3d_init_attractor pushes, in push order
Seed3D(a, size) ==
    CASE a = "POINT" -> << [x |-> 0, y |-> 0, z |-> 0] >>
      [] a = "LINE" ->
            [i \in 1..size |-> [x |-> (i - 1) - (size \div 2), y |-> 0, z |-> 0]]
      [] a = "PLANE" ->
            [k \in 1..(size * size) |->
                [x |-> ((k - 1) \div size) - (size \div 2),
                 y |-> ((k - 1) % size) - (size \div 2),
                 z |-> 0]]
      [] a = "CIRCLE" ->
            [i \in 1..Len(CircleSweep[size]) |->
                [x |-> CircleSweep[size][i][1], y |-> CircleSweep[size][i][2],
                 z |-> 0]]
      [] a = "SPHERE" ->
            [i \in 1..Len(SphereSweep[size]) |-> P3(SphereSweep[size][i])]

Reserve3D(a, size, nn) ==
    CASE a = "POINT" -> [att |-> size, agg |-> nn + size]
      [] a = "LINE" -> [att |-> size, agg |-> nn + size]
      [] a = "PLANE" -> [att |-> size * size, agg |-> nn + size * size]
      [] a = "CIRCLE" -> [att |-> CircleReserve[size], agg |-> CircleReserve[size]]
      [] a = "SPHERE" -> [att |-> SphereReserve[size], agg |-> SphereReserve[size]]

aggregate_3d_init_attractor(nn, ok) ==
    init_attractor(_attractor, _aggregate, Seed3D(at, att_size),
                   Reserve3D(at, att_size, nn), ok)

Indeterminate3D == {[x |-> a, y |-> b, z |-> c] : a, b, c \in IndetCoords}

Read3D(v) == IF v = Indet THEN Indeterminate3D ELSE {v}

\* aggregate_3d_spawn_bp: ppr is the first draw, r1 and r2 the following ones
\* in the order the statements evaluate them
aggregate_3d_spawn_bp(c, ppr, r1, r2) ==
    LET half == spawn_diam \div 2
    IN CASE at = "POINT" ->
            IF DrawLess(ppr, 1, 3)
            THEN [x |-> Centered(spawn_diam, r1), y |-> Centered(spawn_diam, r2),
                  z |-> IF DrawLess(ppr, 1, 6) THEN half ELSE -half]
            ELSE IF DrawLess(ppr, 2, 3)
            THEN [x |-> IF DrawLess(ppr, 1, 2) THEN half ELSE -half,
                  y |-> Centered(spawn_diam, r1), z |-> Centered(spawn_diam, r2)]
            ELSE [x |-> Centered(spawn_diam, r1),
                  y |-> IF DrawLess(ppr, 5, 6) THEN half ELSE -half,
                  z |-> Centered(spawn_diam, r2)]
         [] at = "LINE" ->
            [x |-> 2 * Centered(att_size, r1),
             y |-> IF DrawLess(ppr, 1, 2) THEN spawn_diam ELSE -spawn_diam,
             z |-> IF DrawLess(ppr, 1, 2) THEN spawn_diam ELSE -spawn_diam]
         [] at = "PLANE" ->
            [x |-> 2 * Centered(att_size, r1),
             y |-> 2 * Centered(att_size, r2),
             z |-> IF DrawLess(ppr, 1, 2) THEN spawn_diam ELSE -spawn_diam]
         [] OTHER -> c

Move3(c, dx, dy, dz) == [x |-> c.x + dx, y |-> c.y + dy, z |-> c.z + dz]

\* variant of aggregate_3d_update_bp whose last TRIANGLE threshold sits at 6/8,
\* so that no draw selects +z
aggregate_3d_update_bp_NoUp(c, md) ==
    CASE lt = "SQUARE" ->
            IF DrawLess(md, 1, 6) THEN Move3(c, 1, 0, 0)
            ELSE IF DrawLess(md, 2, 6) THEN Move3(c, -1, 0, 0)
            ELSE IF DrawLess(md, 3, 6) THEN Move3(c, 0, 1, 0)
            ELSE IF DrawLess(md, 4, 6) THEN Move3(c, 0, -1, 0)
            ELSE IF DrawLess(md, 5, 6) THEN Move3(c, 0, 0, 1)
            ELSE Move3(c, 0, 0, -1)
      [] lt = "TRIANGLE" ->
            IF DrawLess(md, 1, 8) THEN Move3(c, 1, 1, 0)
            ELSE IF DrawLess(md, 2, 8) THEN Move3(c, 1, -1, 0)
            ELSE IF DrawLess(md, 3, 8) THEN Move3(c, -1, -1, 0)
            ELSE IF DrawLess(md, 4, 8) THEN Move3(c, -1, 1, 0)
            ELSE IF DrawLess(md, 5, 8) THEN Move3(c, 1, 0, 0)
            ELSE IF DrawLess(md, 6, 8) THEN Move3(c, -1, 0, 0)
            ELSE IF DrawLess(md, 6, 8) THEN Move3(c, 0, 0, 1)
            ELSE Move3(c, 0, 0, -1)

aggregate_3d_update_bp(c, md) ==
    CASE lt = "SQUARE" ->
            IF DrawLess(md, 1, 6) THEN Move3(c, 1, 0, 0)
            ELSE IF DrawLess(md, 2, 6) THEN Move3(c, -1, 0, 0)
            ELSE IF DrawLess(md, 3, 6) THEN Move3(c, 0, 1, 0)
            ELSE IF DrawLess(md, 4, 6) THEN Move3(c, 0, -1, 0)
            ELSE IF DrawLess(md, 5, 6) THEN Move3(c, 0, 0, 1)
            ELSE Move3(c, 0, 0, -1)
      [] lt = "TRIANGLE" ->
            IF DrawLess(md, 1, 8) THEN Move3(c, 1, 1, 0)
            ELSE IF DrawLess(md, 2, 8) THEN Move3(c, 1, -1, 0)
            ELSE IF DrawLess(md, 3, 8) THEN Move3(c, -1, -1, 0)
            ELSE IF DrawLess(md, 4, 8) THEN Move3(c, -1, 1, 0)
            ELSE IF DrawLess(md, 5, 8) THEN Move3(c, 1, 0, 0)
            ELSE IF DrawLess(md, 6, 8) THEN Move3(c, -1, 0, 0)
            ELSE IF DrawLess(md, 7, 8) THEN Move3(c, 0, 0, 1)
            ELSE Move3(c, 0, 0, -1)

\* one draw for every step aggregate_3d_update_bp can take from c: the draws
\* whose step differs from the step of the draw just below
StepDraws3D(c) ==
    LET taken == {<<v, aggregate_3d_update_bp(c, v)>> : v \in Draws}
    IN {a[1] : a \in {a \in taken : a[1] = 0 \/ <<a[1] - 1, a[2]>> \notin taken}}

aggregate_3d_lattice_collision(c, p) ==
    LET out ==
          CASE at \in {"POINT", "CIRCLE", "SPHERE"} ->
                 LET bnd_absmax == (spawn_diam \div 2) + EPSILON
                 IN abs(c.x) > bnd_absmax \/ abs(c.y) > bnd_absmax
                    \/ abs(c.z) > bnd_absmax
            [] at = "LINE" ->
                 \/ abs(c.x) > 2 * att_size
                 \/ abs(c.y) > spawn_diam + EPSILON
                 \/ abs(c.z) > spawn_diam + EPSILON
            [] at = "PLANE" ->
                 \/ abs(c.x) > 2 * att_size
                 \/ abs(c.y) > 2 * att_size
                 \/ abs(c.z) > spawn_diam + EPSILON
    IN IF out THEN [curr |-> p, ret |-> TRUE] ELSE [curr |-> c, ret |-> FALSE]

\* variant of collision_3d that expands the spawn plane for every attractor
collision_3d_AnyPlane(c, p, u, ok, pushed) ==
    LET none == [ret |-> FALSE, agg |-> _aggregate, max_x |-> max_x,
                 max_y |-> max_y, max_z |-> max_z, max_r_sqd |-> max_r_sqd,
                 spawn_diam |-> spawn_diam]
        expand_spawn_plane == abs(p.z) > max_z
        rsqd == p.x * p.x + p.y * p.y + p.z * p.z
    IN IF StickRejected(u) THEN none
       ELSE IF \A i \in 0..(vector_size(_aggregate) - 1) :
                    vector_at(_aggregate, i) # c THEN none
       ELSE [ret |-> TRUE,
             agg |-> vector_push_back(_aggregate, pushed, ok).vec,
             max_x |-> ExtentUpdate(max_x, p.x),
             max_y |-> ExtentUpdate(max_y, p.y),
             max_z |-> ExtentUpdate(max_z, p.z),
             max_r_sqd |-> IF at = "POINT" /\ rsqd > max_r_sqd
                           THEN rsqd ELSE max_r_sqd,
             spawn_diam |->
                 IF at = "POINT" /\ rsqd > max_r_sqd
                 THEN 2 * ISqrt(rsqd) + b_offset
                 ELSE IF expand_spawn_plane
                 THEN p.z + b_offset
                 ELSE spawn_diam]

\* aggregate_3d_collision with the pushed position as a parameter
collision_3d(c, p, u, ok, pushed) ==
    LET none == [ret |-> FALSE, agg |-> _aggregate, max_x |-> max_x,
                 max_y |-> max_y, max_z |-> max_z, max_r_sqd |-> max_r_sqd,
                 spawn_diam |-> spawn_diam]
        expand_spawn_plane == abs(p.z) > max_z
        rsqd == p.x * p.x + p.y * p.y + p.z * p.z
    IN IF StickRejected(u) THEN none
       ELSE IF \A i \in 0..(vector_size(_aggregate) - 1) :
                    vector_at(_aggregate, i) # c THEN none
       ELSE [ret |-> TRUE,
             agg |-> vector_push_back(_aggregate, pushed, ok).vec,
             max_x |-> ExtentUpdate(max_x, p.x),
             max_y |-> ExtentUpdate(max_y, p.y),
             max_z |-> ExtentUpdate(max_z, p.z),
             max_r_sqd |-> IF at = "POINT" /\ rsqd > max_r_sqd
                           THEN rsqd ELSE max_r_sqd,
             spawn_diam |->
                 IF at = "POINT" /\ rsqd > max_r_sqd
                 THEN 2 * ISqrt(rsqd) + b_offset
                 ELSE IF at = "PLANE" /\ expand_spawn_plane
                 THEN p.z + b_offset
                 ELSE spawn_diam]

\* variant of aggregate_3d_collision that pushes curr instead of prev
aggregate_3d_collision_PushCurr(c, p, u, ok) == collision_3d(c, p, u, ok, c)

aggregate_3d_collision(c, p, u, ok) == collision_3d(c, p, u, ok, p)

\* ---- aggregate_3d_generate ----------------------------------------------
Generate3D ==
    /\ pc = "idle" /\ dim = 3
    /\ \E nn \in 0..MaxN, ok \in AllocOutcomes :
         Enter(nn, aggregate_reserve(nn, ok), aggregate_3d_init_attractor(nn, ok))

Spawn3D ==
    /\ pc = "loop" /\ dim = 3 /\ count < n /\ ~has_next_spawned
    /\ \E c \in {aggregate_3d_spawn_bp(curr, ppr, r1, r2) :
                 ppr \in FaceDraws(6), r1, r2 \in CenterDraws} :
          curr' = c
    /\ has_next_spawned' = TRUE
    /\ UNCHANGED <<aggvars, vecvars, oom, pc, n, steps_to_stick, bcolls,
                   count, histvars, prngvars, iovars>>

iterate_3d(p, md, u, ok) ==
    LET stepped == aggregate_3d_update_bp(p, md)
        lc == aggregate_3d_lattice_collision(stepped, p)
        bc == IF lc.ret THEN bcolls + 1 ELSE bcolls
        steps == steps_to_stick + 1
        col == aggregate_3d_collision(lc.curr, p, u, ok)
        rec == generate_record(disp_prog, col.ret, steps, bc, ok)
    IN [prev |-> p, curr |-> lc.curr, reverted |-> (lc.curr # stepped),
        col |-> col, rec |-> rec]

Walk3D ==
    /\ pc = "loop" /\ dim = 3 /\ count < n /\ has_next_spawned
    /\ StepsMade < MaxSteps3D
    /\ \E ok \in AllocOutcomes :
       \E p \in Read3D(curr) :
       \E md \in StepDraws3D(p), u \in StickDraws :
          Commit(iterate_3d(p, md, u, ok))
    /\ UNCHANGED prngvars

Next == Generate2D \/ Spawn2D \/ Walk2D \/ Generate3D \/ Spawn3D \/ Walk3D

Spec == Init /\ [][Next]_vars

\* ---- repeated calls of generate on one aggregate ---------------------------
\* the seed one call of init_attractor appends
SeedOfCall == IF dim = 2 THEN Seed2D(at, att_size) ELSE Seed3D(at, att_size)

\* the calls of generate made so far
CallsMade == Len(_attractor.data) \div Len(SeedOfCall)

\* entry of a further call of generate: as Enter, with the locals of the new
\* activation, of which curr is unassigned again
Reenter(nn, res, ini) ==
    /\ n' = nn
    /\ IF res.rc = -1
       THEN /\ pc' = "failed"
            /\ _rsteps' = res.rsteps /\ _bcolls' = res.bcolls
            /\ UNCHANGED <<_aggregate, _attractor>>
       ELSE /\ _rsteps' = res.rsteps /\ _bcolls' = res.bcolls
            /\ _attractor' = ini.att /\ _aggregate' = ini.agg
            /\ pc' = IF ini.rc = -1 THEN "failed"
                     ELSE IF nn = 0 THEN "done" ELSE "loop"
    /\ steps_to_stick' = 0 /\ bcolls' = 0 /\ count' = 0
    /\ has_next_spawned' = FALSE
    /\ curr' = Indet
    /\ UNCHANGED <<aggvars, oom, histvars, prngvars, iovars>>

\* aggregate_2d_generate called again after a call that returned 0
Regenerate2D ==
    /\ pc = "done" /\ dim = 2 /\ CallsMade < MaxCalls
    /\ \E nn \in 0..MaxN, ok \in AllocOutcomes :
         Reenter(nn, aggregate_reserve(nn, ok), aggregate_2d_init_attractor(nn, ok))

\* aggregate_3d_generate called again after a call that returned 0
Regenerate3D ==
    /\ pc = "done" /\ dim = 3 /\ CallsMade < MaxCalls
    /\ \E nn \in 0..MaxN, ok \in AllocOutcomes :
         Reenter(nn, aggregate_reserve(nn, ok), aggregate_3d_init_attractor(nn, ok))

NextCalls == Next \/ Regenerate2D \/ Regenerate3D

\* the state after init with att_size as init sets it (aggregate.c:55)
InitDefault == Init /\ att_size = 1

SpecCalls == InitDefault /\ [][NextCalls]_vars

\* ---- the 2D SQUARE / LINE scenario with att_size 5 ------------------------
\* init(stickiness 1, SQUARE, LINE) followed by the caller setting att_size
InitLine ==
    /\ dim = 2 /\ lt = "SQUARE" /\ at = "LINE"
    /\ stickiness = RandMax
    /\ att_size = 5
    /\ Fresh

\* one iteration of the while loop of aggregate_2d_generate, as Walk2D, with
\* the step budget of the scenario
Walk2DLine ==
    /\ pc = "loop" /\ dim = 2 /\ count < n /\ has_next_spawned
    /\ StepsMade < MaxStepsLine
    /\ \E ok \in AllocOutcomes :
       \E p \in Read2D(curr) :
       \E md \in StepDraws2D(p), u \in StickDraws :
          Commit(iterate_2d(p, md, u, ok))
    /\ UNCHANGED prngvars

NextLine == Generate2D \/ Spawn2D \/ Walk2DLine

SpecLine == InitLine /\ [][NextLine]_vars

\* ---- stickiness 0 ----------------------------------------------------------
\* the state after init with stickiness 0 and the caller choosing att_size
InitZero ==
    /\ dim \in {2, 3}
    /\ lt \in {"SQUARE", "TRIANGLE"}
    /\ at \in Attractors(dim)
    /\ stickiness = 0
    /\ att_size \in IF at = "POINT" THEN {1} ELSE {1, MaxAttSize}
    /\ Fresh

SpecZero == InitZero /\ [][Next]_vars

\* the generator on a wide CIRCLE attractor
SpecWide == InitWide /\ [][Next]_vars

\* ---- properties ---------------------------------------------------------
stuck == _aggregate.data
seed == _attractor.data
required_steps == _rsteps.data
boundary_collisions == _bcolls.data

Range(q) == {q[i] : i \in 1..Len(q)}
Last(q) == q[Len(q)]

\* between particles: the seed is placed and no walker is in flight
Quiescent == pc \in {"loop", "done"} /\ ~has_next_spawned

\* the bounding region of the attractor for the current spawn_diam
InRegion(c) ==
    CASE at \in {"POINT", "CIRCLE", "SPHERE"} ->
            /\ abs(c.x) <= (spawn_diam \div 2) + 2
            /\ abs(c.y) <= (spawn_diam \div 2) + 2
            /\ dim = 3 => abs(c.z) <= (spawn_diam \div 2) + 2
      [] at = "LINE" ->
            /\ abs(c.x) <= 2 * att_size
            /\ abs(c.y) <= spawn_diam + 2
            /\ dim = 3 => abs(c.z) <= spawn_diam + 2
      [] at = "PLANE" ->
            /\ abs(c.x) <= 2 * att_size
            /\ abs(c.y) <= 2 * att_size
            /\ abs(c.z) <= spawn_diam + 2

RSqd(c) == c.x * c.x + c.y * c.y + (IF dim = 3 THEN c.z * c.z ELSE 0)

\* the offsets of the move sets, as aggregate_2d_update_bp and
\* aggregate_3d_update_bp add them
Moves2D ==
    IF lt = "SQUARE"
    THEN {P2(<<1, 0>>), P2(<<-1, 0>>), P2(<<0, 1>>), P2(<<0, -1>>)}
    ELSE {P2(<<1, 0>>), P2(<<-1, 0>>), P2(<<1, 1>>), P2(<<1, -1>>),
          P2(<<-1, 1>>), P2(<<-1, -1>>)}

Moves3D ==
    IF lt = "SQUARE"
    THEN {P3(<<1, 0, 0>>), P3(<<-1, 0, 0>>), P3(<<0, 1, 0>>),
          P3(<<0, -1, 0>>), P3(<<0, 0, 1>>), P3(<<0, 0, -1>>)}
    ELSE {P3(<<1, 1, 0>>), P3(<<1, -1, 0>>), P3(<<-1, -1, 0>>),
          P3(<<-1, 1, 0>>), P3(<<1, 0, 0>>), P3(<<-1, 0, 0>>),
          P3(<<0, 0, 1>>), P3(<<0, 0, -1>>)}

Moves == IF dim = 2 THEN Moves2D ELSE Moves3D

\* q - p
Offset(q, p) ==
    IF dim = 2 THEN [x |-> q.x - p.x, y |-> q.y - p.y]
    ELSE [x |-> q.x - p.x, y |-> q.y - p.y, z |-> q.z - p.z]

\* C1: at every quiescent point of generate, len(stuck) = len(seed) +
\* len(required_steps) and len(required_steps) = len(boundary_collisions).
C1_LengthCoherence ==
    Quiescent =>
        /\ Len(stuck) = Len(seed) + Len(required_steps)
        /\ Len(required_steps) = Len(boundary_collisions)

C1_Witness ==
    /\ pc = "done" /\ n = 2 /\ at \in {"POINT", "LINE", "PLANE"}
    /\ Len(required_steps) = 2 /\ Len(stuck) = Len(seed) + 2

\* C2: after generate(n) with a POINT, LINE or PLANE attractor and any
\* stickiness, no two entries of stuck have the same coordinates.
C2_Distinct ==
    (pc = "done" /\ at \in {"POINT", "LINE", "PLANE"}) =>
        \A i, j \in 1..Len(stuck) : i # j => stuck[i] # stuck[j]

\* C3: a walker sticks only in an iteration whose position after the step and
\* the boundary enforcement (curr) is already in stuck, and the position
\* appended to stuck is the position the walker had before that step (prev).
C3_StickAtPrev ==
    [][(pc = "loop" /\ Len(stuck') # Len(stuck)) =>
          /\ curr' \in Range(stuck)
          /\ stuck' = Append(stuck, Last(hist').prev)
          /\ curr # Indet => Last(stuck') = curr]_vars

C3_Witness ==
    /\ at = "POINT" /\ Quiescent /\ hist # <<>>
    /\ curr \in Range(stuck) /\ curr # Last(hist).prev
    /\ Last(stuck) = Last(hist).prev

\* C4: required_steps[i] is the number of step attempts of walker i between
\* its spawn and its stick, reverted attempts included, and the counter
\* restarts at 0 for the next walker.
C4_RequiredSteps ==
    /\ Len(required_steps) = Len(hist)
    /\ \A i \in 1..Len(hist) : required_steps[i] = hist[i].attempts
    /\ steps_to_stick = attempts
    /\ Quiescent => steps_to_stick = 0

C4_Witness ==
    /\ at = "LINE" /\ Len(hist) = 1 /\ hist[1].reverts >= 1
    /\ required_steps[1] = hist[1].attempts

\* C5: boundary_collisions[i] is the number of step attempts of walker i that
\* the boundary enforcer reverted, for every attractor.
C5_BoundaryCollisions ==
    /\ Len(boundary_collisions) = Len(hist)
    /\ \A i \in 1..Len(hist) : boundary_collisions[i] = hist[i].reverts

\* C6: after the boundary enforcer has run in an iteration, the walker lies
\* inside the bounding region of the attractor for the current spawn_diam.
C6_InsideRegion ==
    [][(pc = "loop" /\ has_next_spawned /\ attempts' # attempts) =>
          InRegion(curr')]_vars

\* C7: spawn_diam >= b_offset in every reachable state.
C7_SpawnDiamFloor == spawn_diam >= b_offset

\* C8: no stick sets spawn_diam to a smaller value than it had before.
C8_SpawnDiamMonotone == [][spawn_diam' >= spawn_diam]_vars

\* C9: no transition of generate lowers max_x, max_y, max_z or max_r_sqd.
C9_ExtentMonotone ==
    [][/\ max_x' >= max_x /\ max_y' >= max_y
       /\ max_z' >= max_z /\ max_r_sqd' >= max_r_sqd]_vars

C9_Witness ==
    /\ at = "POINT" /\ Len(hist) = 2
    /\ abs(hist[2].prev.x) < abs(hist[1].prev.x)
    /\ max_x = abs(hist[1].prev.x)

\* C10: at every quiescent point every position p of stuck, seed included,
\* has max_x >= |p.x|, max_y >= |p.y|, max_z >= |p.z| (3D) and
\* max_r_sqd >= the squared radius of p.
C10_ExtentCovers ==
    Quiescent =>
        \A i \in 1..Len(stuck) :
            /\ max_x >= abs(stuck[i].x)
            /\ max_y >= abs(stuck[i].y)
            /\ dim = 3 => max_z >= abs(stuck[i].z)
            /\ max_r_sqd >= RSqd(stuck[i])

\* C11: every non-seed particle p of stuck has a particle q earlier in stuck
\* with q - p a move of the active lattice (so q # p).
C11_Adjacency ==
    \A i \in (Len(seed) + 1)..Len(stuck) :
        \E j \in 1..(i - 1) : Offset(stuck[j], stuck[i]) \in Moves

C11_Witness ==
    /\ at \in {"POINT", "LINE", "PLANE"}
    /\ Len(stuck) = Len(seed) + 2
    /\ Offset(stuck[Len(seed) + 1], stuck[Len(stuck)]) \in Moves

\* C12: the position a stick appends to stuck lies in the boundary
\* enforcer's region for the spawn_diam and att_size in force before the
\* stick's update.
C12_Containment ==
    [][(pc = "loop" /\ Len(stuck') # Len(stuck)) => InRegion(Last(stuck'))]_vars

\* C13: generation is a function of the configuration and the stream of
\* draws: in every iteration the effect on stuck, the statistics and the
\* metrics is the same for every value the walker position can be read as,
\* given the same step draw md and stick draw u.
C13_Deterministic ==
    (pc = "loop" /\ count < n /\ has_next_spawned) =>
        \A md, u \in Draws :
            IF dim = 2
            THEN \A p, q \in Read2D(curr) :
                    /\ iterate_2d(p, md, u, TRUE).col = iterate_2d(q, md, u, TRUE).col
                    /\ iterate_2d(p, md, u, TRUE).rec = iterate_2d(q, md, u, TRUE).rec
            ELSE \A p, q \in Read3D(curr) :
                    /\ iterate_3d(p, md, u, TRUE).col = iterate_3d(q, md, u, TRUE).col
                    /\ iterate_3d(p, md, u, TRUE).rec = iterate_3d(q, md, u, TRUE).rec

\* C14: generate(n) returns success only when exactly n walkers have stuck
\* in the call: stuck holds the seed plus n entries, required_steps and
\* boundary_collisions hold n entries each; generate(0) returns after seeding
\* without spawning a walker.
C14_ExactCount ==
    pc = "done" =>
        /\ Len(hist) = n
        /\ Len(stuck) = Len(seed) + n
        /\ Len(required_steps) = n /\ Len(boundary_collisions) = n
        /\ n = 0 => (curr = Indet /\ ~has_next_spawned /\ stuck = seed)

C14_Witness ==
    /\ pc = "done" /\ n = MaxN /\ at = "POINT" /\ dim = 2
    /\ Len(stuck) = Len(seed) + MaxN

\* a walker at c that is not on the aggregate and whose every step the
\* boundary enforcer reverts: it stays at c and never collides
Trapped(c) ==
    /\ c \notin Range(stuck)
    /\ \A md \in Draws :
          IF dim = 2
          THEN aggregate_2d_lattice_collision(aggregate_2d_update_bp(c, md), c).curr = c
          ELSE aggregate_3d_lattice_collision(aggregate_3d_update_bp(c, md), c).curr = c

\* C15: with stickiness > 0 every spawned walker can still reach a position
\* that collides with the aggregate, so generate(n) returns under fair
\* draws: no reachable state holds a walker that can never collide.
C15_NoTrappedWalker ==
    (pc = "loop" /\ has_next_spawned /\ stickiness > 0 /\ curr # Indet) =>
        ~Trapped(curr)

\* C16: after any sequence of generate calls the first len(seed) entries of
\* stuck are the entries of seed in the same order, and the later entries
\* are the stuck walkers in the order they stuck.
C16_SeedPrefix ==
    pc = "done" =>
        /\ Len(stuck) = Len(seed) + Len(hist)
        /\ \A i \in 1..Len(seed) : stuck[i] = seed[i]
        /\ \A i \in 1..Len(hist) : stuck[Len(seed) + i] = hist[i].prev

\* C17: with a POINT attractor and stickiness 1, after generate(1) the seed is
\* the single origin particle and the one stuck walker lies at origin + m for
\* a move m of the active lattice.
C17_PointNeighbour ==
    (pc = "done" /\ n = 1 /\ at = "POINT" /\ stickiness = RandMax) =>
        /\ seed = IF dim = 2 THEN << P2(<<0, 0>>) >> ELSE << P3(<<0, 0, 0>>) >>
        /\ Len(stuck) = 2 /\ stuck[1] = seed[1]
        /\ Offset(stuck[2], seed[1]) \in Moves

C17_Witness ==
    /\ pc = "done" /\ n = 1 /\ at = "POINT" /\ stickiness = RandMax
    /\ dim = 3 /\ lt = "SQUARE"
    /\ stuck = << P3(<<0, 0, 0>>), P3(<<0, 0, 1>>) >>

\* the seed of the scenario: (-2,0), (-1,0), (0,0), (1,0), (2,0)
LineSeed5 == [i \in 1..5 |-> P2(<<i - 3, 0>>)]

\* C18 as claimed: with 2D SQUARE, LINE, att_size 5 and stickiness 1, after
\* generate(1) the seed is (-2,0)..(2,0) and the stuck walker has |y| = 1 and
\* x in -2..2.
C18_LineAbove ==
    (pc = "done" /\ n = 1) =>
        /\ seed = LineSeed5 /\ Len(stuck) = 6
        /\ abs(stuck[6].y) = 1 /\ stuck[6].x \in -2..2

\* C18 amended: the stuck walker is one SQUARE move away from a seed particle
\* and not on the seed: |y| = 1 and x in -2..2, or y = 0 and |x| = 3.
C18_LineAdjacent ==
    (pc = "done" /\ n = 1) =>
        /\ seed = LineSeed5 /\ Len(stuck) = 6
        /\ \/ abs(stuck[6].y) = 1 /\ stuck[6].x \in -2..2
           \/ stuck[6].y = 0 /\ abs(stuck[6].x) = 3

C18_Witness ==
    /\ pc = "done" /\ n = 1 /\ att_size = 5
    /\ Len(stuck) = 6 /\ stuck[6] = P2(<<3, 0>>)

\* C19: with stickiness 0 no walker ever sticks, whatever the stick draw:
\* stuck stays equal to seed and the statistics sequences stay empty.
C19_NeverSticks ==
    stickiness = 0 =>
        /\ stuck = seed
        /\ required_steps = <<>> /\ boundary_collisions = <<>>

\* C20: for a 2D POINT aggregate with stickiness 1, at every quiescent point
\* of generate max_r_sqd >= max_x^2 and max_r_sqd >= max_y^2.
C20_RadiusCoversExtents ==
    (dim = 2 /\ at = "POINT" /\ stickiness = RandMax /\ Quiescent) =>
        /\ max_r_sqd >= max_x * max_x
        /\ max_r_sqd >= max_y * max_y

C20_Witness ==
    /\ dim = 2 /\ at = "POINT" /\ stickiness = RandMax /\ Quiescent
    /\ Len(stuck) = 3 /\ max_x > 0 /\ max_y > 0
    /\ max_r_sqd < max_x * max_x + max_y * max_y

\* ---- a heap that can refuse a reallocation -------------------------------
\* the state after init succeeded and the caller chose att_size, when every
\* later realloc may return NULL
InitOom ==
    /\ dim \in {2, 3}
    /\ lt \in {"SQUARE", "TRIANGLE"}
    /\ at \in Attractors(dim)
    /\ stickiness \in Stickiness
    /\ att_size \in IF at = "POINT" THEN {1} ELSE {1, MaxAttSize}
    /\ b_offset = B_OFFSET
    /\ spawn_diam = B_OFFSET
    /\ max_x = 0 /\ max_y = 0 /\ max_z = 0 /\ max_r_sqd = 0
    /\ _aggregate = vector_alloc /\ _attractor = vector_alloc
    /\ _rsteps = vector_alloc /\ _bcolls = vector_alloc
    /\ oom = TRUE
    /\ pc = "idle" /\ n = 0
    /\ curr = Indet
    /\ steps_to_stick = 0 /\ bcolls = 0 /\ count = 0
    /\ has_next_spawned = FALSE
    /\ attempts = 0 /\ reverts = 0 /\ hist = <<>> /\ called = NoCall
    /\ Seeded(0)
    /\ Silent

SpecOom == InitOom /\ [][Next]_vars

\* C21: when a reallocation fails while generate grows the aggregate or the
\* statistics (an append of a stuck walker included), generate returns the
\* failure status and the lengths stay coherent: a call that returned success
\* appended every walker that stuck, and after either return len(stuck) =
\* len(seed) + len(required_steps), len(required_steps) =
\* len(boundary_collisions).
C21_FailureReported ==
    /\ pc \in {"done", "failed"} =>
          /\ Len(stuck) = Len(seed) + Len(required_steps)
          /\ Len(required_steps) = Len(boundary_collisions)
    /\ pc = "done" => Len(stuck) = Len(seed) + Len(hist)

\* ---- a LINE aggregate growing downwards -----------------------------------
MaxNDescent == 4        \* largest n passed to generate in SpecDescent
MaxStepsDescent == 12   \* cap on the step attempts of the call in SpecDescent

\* init(stickiness 1, SQUARE, LINE) with att_size as init sets it
InitDescent ==
    /\ dim = 2 /\ lt = "SQUARE" /\ at = "LINE"
    /\ stickiness = RandMax
    /\ att_size = 1
    /\ Fresh

\* aggregate_2d_generate, as Generate2D, for n up to MaxNDescent
GenerateDescent ==
    /\ pc = "idle" /\ dim = 2
    /\ \E nn \in 0..MaxNDescent, ok \in AllocOutcomes :
         Enter(nn, aggregate_reserve(nn, ok), aggregate_2d_init_attractor(nn, ok))

\* one iteration of the while loop of aggregate_2d_generate, as Walk2D, with
\* the step budget of the scenario
WalkDescent ==
    /\ pc = "loop" /\ dim = 2 /\ count < n /\ has_next_spawned
    /\ StepsMade < MaxStepsDescent
    /\ \E ok \in AllocOutcomes :
       \E p \in Read2D(curr) :
       \E md \in StepDraws2D(p), u \in StickDraws :
          Commit(iterate_2d(p, md, u, ok))
    /\ UNCHANGED prngvars

NextDescent == GenerateDescent \/ Spawn2D \/ WalkDescent

SpecDescent == InitDescent /\ [][NextDescent]_vars

\* a walker has just been spawned and has not stepped yet
JustSpawned == pc = "loop" /\ has_next_spawned /\ steps_to_stick = 0

\* s lies outside the surface the spawn rule of the attractor draws from: the
\* box of half-width spawn_diam / 2 (POINT), the lines y = +-spawn_diam (LINE,
\* in 3D with z = +-spawn_diam), the planes z = +-spawn_diam (PLANE)
BeyondSpawn(s) ==
    CASE at = "POINT" ->
            \/ abs(s.x) > spawn_diam \div 2
            \/ abs(s.y) > spawn_diam \div 2
            \/ dim = 3 /\ abs(s.z) > spawn_diam \div 2
      [] at = "LINE" ->
            \/ abs(s.y) > spawn_diam
            \/ dim = 3 /\ abs(s.z) > spawn_diam
      [] at = "PLANE" -> abs(s.z) > spawn_diam
      [] OTHER -> FALSE

\* C22: for POINT, LINE and PLANE every spawned position lies on a surface
\* enclosing the aggregate: it is no position of stuck and no stuck particle
\* lies beyond the spawn surface.
C22_SpawnEncloses ==
    (JustSpawned /\ at \in {"POINT", "LINE", "PLANE"}) =>
        /\ curr \notin Range(stuck)
        /\ \A i \in 1..Len(stuck) : ~BeyondSpawn(stuck[i])

\* c lies on the surface of the box of half-width spawn_diam / 2 centred on
\* the origin, the surface the POINT spawn rule draws from
OnSpawnBox(c) ==
    LET half == spawn_diam \div 2
        cs == IF dim = 2 THEN {c.x, c.y} ELSE {c.x, c.y, c.z}
    IN /\ \A v \in cs : abs(v) <= half
       /\ \E v \in cs : abs(v) = half

\* C23: for CIRCLE and SPHERE attractors every new walker is spawned by the
\* POINT rule: right after a spawn the walker has a position, drawn on the
\* box surface of half-width spawn_diam / 2, whatever the previous walker's
\* final position was.
C23_CircleSpawnsAsPoint ==
    (JustSpawned /\ at \in {"CIRCLE", "SPHERE"}) =>
        /\ curr # Indet
        /\ OnSpawnBox(curr)

\* ---- two aggregates on the generator of the C library --------------------
MaxTime == 2    \* latest value of time(NULL) considered

\* aggregate_2d_init at any time, for the attractors whose spawn draws twice
InitPrng ==
    /\ dim = 2
    /\ lt \in {"SQUARE", "TRIANGLE"}
    /\ at \in {"POINT", "LINE"}
    /\ stickiness \in Stickiness
    /\ att_size = 1
    /\ b_offset = B_OFFSET
    /\ spawn_diam = B_OFFSET
    /\ max_x = 0 /\ max_y = 0 /\ max_z = 0 /\ max_r_sqd = 0
    /\ _aggregate = vector_alloc /\ _attractor = vector_alloc
    /\ _rsteps = vector_alloc /\ _bcolls = vector_alloc
    /\ oom = FALSE
    /\ pc = "idle" /\ n = 0
    /\ curr = Indet
    /\ steps_to_stick = 0 /\ bcolls = 0 /\ count = 0
    /\ has_next_spawned = FALSE
    /\ attempts = 0 /\ reverts = 0 /\ hist = <<>> /\ called = NoCall
    /\ \E t \in 0..MaxTime : Seeded(t)
    /\ Silent

\* the spawn of aggregate_2d_generate with the two prand() calls of
\* aggregate_2d_spawn_bp taken from the stream
SpawnPrng ==
    /\ pc = "loop" /\ dim = 2 /\ count < n /\ ~has_next_spawned
    /\ LET ppr == rand(rand_state)
           r == rand(ppr)
       IN /\ curr' = aggregate_2d_spawn_bp(curr, ppr, r)
          /\ rand_state' = r
          /\ drawn' = drawn \o <<ppr, r>>
    /\ has_next_spawned' = TRUE
    /\ UNCHANGED <<aggvars, vecvars, oom, pc, n, steps_to_stick, bcolls,
                   count, histvars, seeded, iovars>>

\* one iteration of the while loop of aggregate_2d_generate with the prand()
\* calls of aggregate_2d_update_bp and aggregate_2d_collision taken from the
\* stream
WalkPrng ==
    /\ pc = "loop" /\ dim = 2 /\ count < n /\ has_next_spawned
    /\ StepsMade < MaxSteps2D
    /\ LET md == rand(rand_state)
           u == rand(md)
       IN /\ \E ok \in AllocOutcomes :
             \E p \in Read2D(curr) : Commit(iterate_2d(p, md, u, ok))
          /\ rand_state' = u
          /\ drawn' = drawn \o <<md, u>>
    /\ UNCHANGED seeded

\* aggregate_2d_init / aggregate_3d_init of a second aggregate, between the
\* init and the generate of the first: srand(time(NULL)) at a later time
OtherInit ==
    /\ pc = "idle"
    /\ \E t \in seeded..MaxTime : rand_state' = t
    /\ UNCHANGED <<aggvars, vecvars, oom, locvars, histvars, seeded, drawn,
                   iovars>>

\* a prand() call of a generate on the second aggregate
OtherDraw ==
    /\ pc = "idle"
    /\ rand_state' = rand(rand_state)
    /\ UNCHANGED <<aggvars, vecvars, oom, locvars, histvars, seeded, drawn,
                   iovars>>

NextPrng == Generate2D \/ SpawnPrng \/ WalkPrng \/ OtherInit \/ OtherDraw

SpecPrng == InitPrng /\ [][NextPrng]_vars

\* the i-th value of the stream that srand(s) starts
RECURSIVE StreamAt(_, _)
StreamAt(s, i) == IF i = 0 THEN s ELSE rand(StreamAt(s, i - 1))

\* C24: each aggregate draws from its own stream, seeded once at its init:
\* whatever a second aggregate does in between, the i-th value the aggregate
\* consumes is the i-th value of the stream its own init seeded.
C24_OwnStream ==
    \A i \in 1..Len(drawn) : drawn[i] = StreamAt(seeded, i)

\* ---- generate with and without progress display ---------------------------
\* the state after init with att_size as init sets it, the caller passing
\* either value of disp_prog to generate; the display reads count and n only,
\* so one lattice is followed
InitProgress ==
    /\ dim \in {2, 3}
    /\ lt = "SQUARE"
    /\ at \in Attractors(dim)
    /\ stickiness \in Stickiness
    /\ att_size = 1
    /\ b_offset = B_OFFSET
    /\ spawn_diam = B_OFFSET
    /\ max_x = 0 /\ max_y = 0 /\ max_z = 0 /\ max_r_sqd = 0
    /\ _aggregate = vector_alloc /\ _attractor = vector_alloc
    /\ _rsteps = vector_alloc /\ _bcolls = vector_alloc
    /\ oom = FALSE
    /\ pc = "idle" /\ n = 0
    /\ curr = Indet
    /\ steps_to_stick = 0 /\ bcolls = 0 /\ count = 0
    /\ has_next_spawned = FALSE
    /\ attempts = 0 /\ reverts = 0 /\ hist = <<>> /\ called = NoCall
    /\ Seeded(0)
    /\ disp_prog \in BOOLEAN /\ stdout = <<>> /\ stop = FALSE

SpecProgress == InitProgress /\ [][Next]_vars

\* the fields of a generate_record result that are aggregate or loop state
Recorded(rec) == [rec EXCEPT !.out = <<>>]

\* C25: progress display does not touch the aggregate: whatever the stick
\* test returned, the statistics and counters generate records are the same
\* with disp_prog set and unset, and what has been printed is one percentage
\* per stuck walker, in order (nothing when disp_prog is unset).
C25_ProgressFrame ==
    /\ stdout = IF disp_prog THEN [i \in 1..Len(hist) |-> (100 * i) \div n]
                ELSE <<>>
    /\ (pc = "loop" /\ count < n /\ has_next_spawned) =>
          \A s, ok \in BOOLEAN : \A bc \in {bcolls, bcolls + 1} :
              Recorded(generate_record(TRUE, s, steps_to_stick + 1, bc, ok))
                = Recorded(generate_record(FALSE, s, steps_to_stick + 1, bc, ok))

C25_Witness ==
    /\ disp_prog /\ pc = "done" /\ n = 2
    /\ stdout = <<50, 100>>
    /\ Len(stuck) = Len(seed) + 2

\* ---- a caller that wants to cancel ------------------------------------------
\* aggregate_2d_init(stickiness, lt, POINT)
InitCancel ==
    /\ dim = 2
    /\ lt \in {"SQUARE", "TRIANGLE"}
    /\ at = "POINT"
    /\ stickiness \in Stickiness
    /\ att_size = 1
    /\ Fresh

\* the caller decides, while generate runs, that the generation should stop;
\* aggregate_2d_generate(agg, n, disp_prog) has no parameter through which it
\* could be told, so nothing but the caller's wish changes
RequestStop ==
    /\ pc = "loop" /\ ~stop
    /\ stop' = TRUE
    /\ UNCHANGED <<aggvars, vecvars, oom, locvars, histvars, prngvars,
                   disp_prog, stdout>>

NextCancel == Generate2D \/ Spawn2D \/ Walk2D \/ RequestStop

SpecCancel == InitCancel /\ [][NextCancel]_vars

\* C26: generate can be cancelled between particles: once the caller has
\* requested a stop, the driver does not spawn the next walker.
C26_StopsBeforeSpawn ==
    [][(stop /\ pc = "loop" /\ ~has_next_spawned) => ~has_next_spawned']_vars

\* ---- the vector interface on one vector -----------------------------------
\* agg->_rsteps, a vector of size_t, stands for the vector; the calls are made
\* outside generate
MaxVecSize == 3   \* largest size the vector is grown to
MaxValue == 2     \* largest value pushed
MaxCap == 9       \* largest capacity asked of vector_reserve

InitVector ==
    /\ dim = 2 /\ lt = "SQUARE" /\ at = "POINT"
    /\ stickiness = RandMax
    /\ att_size = 1
    /\ b_offset = B_OFFSET
    /\ spawn_diam = B_OFFSET
    /\ max_x = 0 /\ max_y = 0 /\ max_z = 0 /\ max_r_sqd = 0
    /\ _aggregate = vector_alloc /\ _attractor = vector_alloc
    /\ _rsteps = vector_alloc /\ _bcolls = vector_alloc
    /\ oom = TRUE
    /\ pc = "idle" /\ n = 0
    /\ curr = Indet
    /\ steps_to_stick = 0 /\ bcolls = 0 /\ count = 0
    /\ has_next_spawned = FALSE
    /\ attempts = 0 /\ reverts = 0 /\ hist = <<>> /\ called = NoCall
    /\ Seeded(0)
    /\ Silent

\* the frame of a call of the vector interface on _rsteps, with its record
VectorCall(name, a, r) ==
    /\ _rsteps' = r.vec
    /\ called' = [op |-> name, arg |-> a, ret |-> r.rc, ub |-> r.ub,
                  before |-> _rsteps]
    /\ UNCHANGED <<aggvars, _aggregate, _attractor, _bcolls, oom, locvars,
                   attempts, reverts, hist, prngvars, iovars>>

CallPushBack ==
    /\ pc = "idle" /\ vector_size(_rsteps) < MaxVecSize
    /\ \E v \in 1..MaxValue, ok \in AllocOutcomes :
          VectorCall("push_back", v, vector_push_back(_rsteps, v, ok))

CallReserve ==
    /\ pc = "idle"
    /\ \E cap \in 0..MaxCap, ok \in AllocOutcomes :
          VectorCall("reserve", cap, vector_reserve(_rsteps, cap, ok))

CallShrinkToFit ==
    /\ pc = "idle"
    /\ \E ok \in AllocOutcomes :
          VectorCall("shrink_to_fit", 0, vector_shrink_to_fit(_rsteps, ok))

NextVector == CallPushBack \/ CallReserve \/ CallShrinkToFit

SpecVector == InitVector /\ [][NextVector]_vars

\* C27: vector_push_back on a vector of size s either returns 1 with size
\* s + 1, element s the pushed value and elements 0..s-1 unchanged, or returns
\* -1 with size, capacity and elements unchanged.
C27_PushBackContract ==
    called.op = "push_back" =>
        LET b == called.before
            s == Len(b.data)
        IN /\ ~called.ub
           /\ \/ /\ called.ret = 1
                 /\ Len(_rsteps.data) = s + 1
                 /\ _rsteps.data[s + 1] = called.arg
                 /\ \A i \in 1..s : _rsteps.data[i] = b.data[i]
              \/ /\ called.ret = -1
                 /\ _rsteps.data = b.data
                 /\ _rsteps.capacity = b.capacity

\* C28: vector_reserve(vec, cap) never changes size or elements and never
\* lowers capacity: for cap <= capacity it does nothing and returns PASS, for
\* cap > capacity it sets capacity to cap and returns SUCCESS or returns
\* FAILURE leaving the vector unchanged.
C28_ReserveFrame ==
    called.op = "reserve" =>
        LET b == called.before
        IN /\ ~called.ub
           /\ _rsteps.data = b.data
           /\ _rsteps.capacity >= b.capacity
           /\ IF called.arg <= b.capacity
              THEN called.ret = 0 /\ _rsteps = b
              ELSE \/ called.ret = 1 /\ _rsteps.capacity = called.arg
                   \/ called.ret = -1 /\ _rsteps = b

\* the offsets of the move sets in the order update_bp tests for them
MoveOrder2D ==
    IF lt = "SQUARE"
    THEN << <<1, 0>>, <<-1, 0>>, <<0, 1>>, <<0, -1>> >>
    ELSE << <<1, 0>>, <<-1, 0>>, <<1, 1>>, <<1, -1>>, <<-1, 1>>, <<-1, -1>> >>

MoveOrder3D ==
    IF lt = "SQUARE"
    THEN << <<1, 0, 0>>, <<-1, 0, 0>>, <<0, 1, 0>>, <<0, -1, 0>>,
            <<0, 0, 1>>, <<0, 0, -1>> >>
    ELSE << <<1, 1, 0>>, <<1, -1, 0>>, <<-1, -1, 0>>, <<-1, 1, 0>>,
            <<1, 0, 0>>, <<-1, 0, 0>>, <<0, 0, 1>>, <<0, 0, -1>> >>

\* the interval of the draw md among k equal-width intervals of [0, 1]: the
\* first j with md < j/k, the last interval for a draw below no threshold
Interval(md, k) ==
    IF \E j \in 1..(k - 1) : md * k < j * RandMax
    THEN CHOOSE j \in 1..(k - 1) :
            /\ md * k < j * RandMax
            /\ \A i \in 1..(j - 1) : ~(md * k < i * RandMax)
    ELSE k

\* C29: one lattice step moves the walker by exactly one offset of the
\* lattice's move set, the one whose interval, in the declared order and with
\* equal widths, holds the draw; the last offset takes every draw that is
\* below no threshold, and no step is the zero move.
C29_OneStep ==
    (pc = "loop" /\ count < n /\ has_next_spawned) =>
        \A md \in Draws :
            IF dim = 2
            THEN LET o == MoveOrder2D[Interval(md, Len(MoveOrder2D))]
                 IN /\ o # <<0, 0>>
                    /\ \A p \in Read2D(curr) :
                          aggregate_2d_update_bp(p, md)
                            = [x |-> p.x + o[1], y |-> p.y + o[2]]
            ELSE LET o == MoveOrder3D[Interval(md, Len(MoveOrder3D))]
                 IN /\ o # <<0, 0, 0>>
                    /\ \A p \in Read3D(curr) :
                          aggregate_3d_update_bp(p, md)
                            = [x |-> p.x + o[1], y |-> p.y + o[2],
                               z |-> p.z + o[3]]

C29_Witness ==
    /\ pc = "loop" /\ has_next_spawned /\ attempts = 1 /\ reverts = 0
    /\ dim = 3 /\ lt = "TRIANGLE" /\ at = "POINT"
    /\ curr = P3(<<-3, -3, -2>>)

\* the position with the coordinates x, y (and z = 0 in 3D)
OnAxisPlane(x, y) ==
    IF dim = 2 THEN [x |-> x, y |-> y] ELSE [x |-> x, y |-> y, z |-> 0]

\* the state after init when the caller chose an attractor whose seed is laid
\* out along the axes
InitSeeded == Init /\ at \in {"LINE", "PLANE"}

SpecSeeded == InitSeeded /\ [][Next]_vars

\* C30: the seed initializer places, in seed and at the front of stuck, in
\* increasing index order, att_size particles (i - floor(att_size/2), 0[, 0])
\* for LINE and att_size^2 particles (i - floor(att_size/2),
\* j - floor(att_size/2), 0), i outer and j inner, for PLANE; the seed
\* positions are pairwise distinct.
C30_SeedPlacement ==
    (pc \in {"loop", "done"} /\ at \in {"LINE", "PLANE"}) =>
        LET h == att_size \div 2
        IN /\ IF at = "LINE"
              THEN /\ Len(seed) = att_size
                   /\ \A i \in 0..(att_size - 1) :
                         seed[i + 1] = OnAxisPlane(i - h, 0)
              ELSE /\ Len(seed) = att_size * att_size
                   /\ \A i, j \in 0..(att_size - 1) :
                         seed[i * att_size + j + 1] = OnAxisPlane(i - h, j - h)
           /\ Len(stuck) >= Len(seed)
           /\ \A k \in 1..Len(seed) : stuck[k] = seed[k]
           /\ \A k, m \in 1..Len(seed) : k # m => seed[k] # seed[m]

C30_Witness ==
    /\ pc = "loop" /\ at = "PLANE" /\ att_size = MaxAttSize
    /\ Len(seed) = MaxAttSize * MaxAttSize
    /\ seed[2] = P3(<<-(MaxAttSize \div 2), 1 - (MaxAttSize \div 2), 0>>)
    /\ stuck[MaxAttSize * MaxAttSize] = P3(<<MaxAttSize - 1 - (MaxAttSize \div 2), MaxAttSize - 1 - (MaxAttSize \div 2), 0>>)

\* ---- the POINT attractor ---------------------------------------------------
InitPoint == Init /\ at = "POINT"

SpecPoint == InitPoint /\ [][Next]_vars

\* the face of the spawn box each interval of the first draw selects: the
\* coordinate that is fixed and its sign
SpawnFace2D == << <<"y", 1>>, <<"y", -1>>, <<"x", 1>>, <<"x", -1>> >>

SpawnFace3D ==
    << <<"z", 1>>, <<"z", -1>>, <<"x", 1>>, <<"x", -1>>, <<"y", 1>>, <<"y", -1>> >>

\* v is spawn_diam * (r/RandMax - 1/2) with its fraction dropped
IsTruncated(v, r) ==
    LET num == spawn_diam * (2 * r - RandMax)
        den == 2 * RandMax
    IN /\ abs(v) * den <= abs(num)
       /\ abs(num) < (abs(v) + 1) * den
       /\ (v > 0 => num > 0) /\ (v < 0 => num < 0)

\* c has the coordinate of face f at +-floor(spawn_diam/2) and every other
\* coordinate, in the order of rs, truncated from the following draws
OnFace(c, f, coords, rs) ==
    LET half == spawn_diam \div 2
        others == SelectSeq(coords, LAMBDA k : k # f[1])
    IN /\ c[f[1]] = f[2] * half
       /\ \A i \in 1..Len(others) :
             /\ abs(c[others[i]]) <= half
             /\ IsTruncated(c[others[i]], rs[i])

InitSure == InitDefault /\ stickiness = RandMax

SpecSure == InitSure /\ [][Next]_vars

\* the values a read of the walker can yield
ReadWalker == IF dim = 2 THEN Read2D(curr) ELSE Read3D(curr)

\* the position of a walker at p after the step of draw md and the boundary
\* enforcement
Landing(p, md) ==
    IF dim = 2
    THEN aggregate_2d_lattice_collision(aggregate_2d_update_bp(p, md), p).curr
    ELSE aggregate_3d_lattice_collision(aggregate_3d_update_bp(p, md), p).curr

\* the loop iteration of a walker at p for the draws md and u
Iteration(p, md, u) ==
    IF dim = 2 THEN iterate_2d(p, md, u, TRUE) ELSE iterate_3d(p, md, u, TRUE)

\* C32: with stickiness = 1 the stick test rejects no draw, the largest one
\* included: an iteration whose position after the step and the boundary
\* enforcement is a position of stuck sticks the walker in that iteration.
C32_SureStick ==
    (pc = "loop" /\ count < n /\ has_next_spawned /\ stickiness = RandMax) =>
        /\ \A u \in Draws : ~StickRejected(u)
        /\ \A p \in ReadWalker, md \in Draws :
              Landing(p, md) \in Range(stuck) =>
                  \A u \in {0, RandMax} :
                      LET it == Iteration(p, md, u)
                      IN /\ it.curr = Landing(p, md)
                         /\ it.col.ret
                         /\ it.col.agg.data = Append(stuck, p)
                         /\ it.rec.count = count + 1
                         /\ ~it.rec.has_next_spawned

C32_Witness ==
    /\ stickiness = RandMax /\ dim = 2 /\ at = "POINT"
    /\ pc = "loop" /\ count = 1 /\ ~has_next_spawned
    /\ hist = << [prev |-> [x |-> 0, y |-> 1], attempts |-> 3, reverts |-> 0] >>
    /\ stuck = << [x |-> 0, y |-> 0], [x |-> 0, y |-> 1] >>

\* ---- the CIRCLE and SPHERE attractors ---------------------------------------
\* init with stickiness 1.0, the SQUARE lattice and a CIRCLE or SPHERE attractor
InitRound == InitSure /\ lt = "SQUARE" /\ at \in {"CIRCLE", "SPHERE"}

\* generate called once or several times on a CIRCLE or SPHERE aggregate
SpecRound == InitRound /\ [][NextCalls]_vars

\* C33: for CIRCLE and SPHERE attractors spawn_diam is never adapted: it
\* equals its initial value b_offset in every state of every generation.
C33_RoundSpawnDiamFixed ==
    at \in {"CIRCLE", "SPHERE"} => (spawn_diam = b_offset /\ b_offset = B_OFFSET)

C33_Witness ==
    /\ at = "SPHERE" /\ pc = "done" /\ n = 2
    /\ Len(hist) = 2 /\ hist[2].prev.z # 0
    /\ max_z > 0 /\ spawn_diam = B_OFFSET

\* the largest squared radius over the positions of stuck
MaxRSqd ==
    CHOOSE m \in {RSqd(stuck[i]) : i \in 1..Len(stuck)} :
        \A i \in 1..Len(stuck) : RSqd(stuck[i]) <= m

\* C34: for a POINT attractor, at every quiescent point max_r_sqd is the
\* largest squared radius over the positions of stuck and
\* spawn_diam = 2*floor(sqrt(max_r_sqd)) + b_offset.
C34_PointRadius ==
    (at = "POINT" /\ Quiescent) =>
        /\ max_r_sqd = MaxRSqd
        /\ \E k \in 0..max_r_sqd :
              /\ k * k <= max_r_sqd /\ max_r_sqd < (k + 1) * (k + 1)
              /\ spawn_diam = 2 * k + b_offset

C34_Witness ==
    /\ at = "POINT" /\ Quiescent /\ dim = 2
    /\ Len(stuck) = 3 /\ max_r_sqd = 2 /\ spawn_diam = B_OFFSET + 2
    /\ RSqd(stuck[3]) = 1

\* what a loop iteration without a stick must leave alone: the recorded data,
\* the metrics and the configuration of the aggregate
Aggregate ==
    <<stuck, seed, required_steps, boundary_collisions, max_x, max_y, max_z,
      max_r_sqd, spawn_diam, att_size, b_offset, stickiness, lt, at, n>>

\* C35: a walk-loop iteration in which no stick occurs (stick draw rejected or
\* no coincident stuck position, with or without a boundary revert) leaves the
\* aggregate unchanged: stuck, seed, required_steps, boundary_collisions,
\* max_x, max_y, max_z, max_r_sqd, spawn_diam and att_size keep their values;
\* only the walker position and the per-walker counters change.
C35_MissFrame ==
    [][(pc = "loop" /\ has_next_spawned /\ count' = count) =>
          /\ Aggregate' = Aggregate
          /\ pc' = "loop" /\ has_next_spawned'
          /\ steps_to_stick' = steps_to_stick + 1
          /\ bcolls' \in {bcolls, bcolls + 1}]_vars

\* a walker that was rejected by the stick test on a stuck position and then
\* reverted at the boundary is still walking, the aggregate being the seed
C35_Witness ==
    /\ pc = "loop" /\ has_next_spawned /\ count = 0
    /\ attempts >= 2 /\ reverts >= 1 /\ bcolls >= 1
    /\ stuck = seed /\ curr # Indet

\* C36: for every recorded walker i required_steps[i] >= 1 and
\* boundary_collisions[i] <= required_steps[i]; while a walker is walking its
\* boundary-collision counter never exceeds its step counter and neither
\* counter decreases.
C36_Counters ==
    [][/\ \A i \in 1..Len(required_steps') : required_steps'[i] >= 1
       /\ \A i \in 1..Len(boundary_collisions') :
             /\ i <= Len(required_steps')
             /\ boundary_collisions'[i] <= required_steps'[i]
       /\ bcolls' <= steps_to_stick'
       /\ has_next_spawned' =>
             (steps_to_stick' >= steps_to_stick /\ bcolls' >= bcolls)]_vars

\* one walker is recorded and the next one has been reverted at the boundary
C36_Witness ==
    /\ pc = "loop" /\ has_next_spawned /\ count = 1
    /\ required_steps = <<3>> /\ boundary_collisions = <<0>>
    /\ bcolls = 1 /\ steps_to_stick = 3

\* ---- a generate call that fails ---------------------------------------------
\* an attractor too large for the initial capacity of the vectors, on a heap
\* that may refuse a reallocation
InitFail ==
    /\ InitOom
    /\ at \in {"CIRCLE", "SPHERE"} /\ att_size = MaxAttSize
    /\ stickiness = RandMax

\* variant of init_attractor_each that seeds _attractor before it reserves
\* _aggregate
init_attractor_each_SeedFirst(sd, res, ok1, ok2) ==
    LET r1 == vector_reserve(_attractor, res.att, ok1)
        r2 == vector_reserve(_aggregate, res.agg, ok2)
    IN IF r1.rc = -1 THEN [rc |-> -1, att |-> _attractor, agg |-> _aggregate]
       ELSE IF r2.rc = -1
       THEN [rc |-> -1, att |-> PushAll(r1.vec, sd, ok1), agg |-> _aggregate]
       ELSE LET q == SeedPush(r1.vec, r2.vec, sd, ok2)
            IN [rc |-> 0, att |-> q.att, agg |-> q.agg]

\* init_attractor when the two reallocations of its reserve calls have
\* outcomes of their own (ok1 for _attractor, ok2 for _aggregate and after)
init_attractor_each(sd, res, ok1, ok2) ==
    LET r1 == vector_reserve(_attractor, res.att, ok1)
        r2 == vector_reserve(_aggregate, res.agg, ok2)
    IN IF r1.rc = -1 THEN [rc |-> -1, att |-> _attractor, agg |-> _aggregate]
       ELSE IF r2.rc = -1 THEN [rc |-> -1, att |-> r1.vec, agg |-> _aggregate]
       ELSE LET q == SeedPush(r1.vec, r2.vec, sd, ok2)
            IN [rc |-> 0, att |-> q.att, agg |-> q.agg]

\* aggregate_2d_generate / aggregate_3d_generate up to the loop
GenerateEach ==
    /\ pc = "idle"
    /\ \E nn \in 0..MaxN, ok0, ok1, ok2 \in AllocOutcomes :
         Enter(nn, aggregate_reserve(nn, ok0),
               IF dim = 2
               THEN init_attractor_each(Seed2D(at, att_size),
                                        Reserve2D(at, att_size, nn), ok1, ok2)
               ELSE init_attractor_each(Seed3D(at, att_size),
                                        Reserve3D(at, att_size, nn), ok1, ok2))

NextFail == GenerateEach \/ Spawn2D \/ Walk2D \/ Spawn3D \/ Walk3D

SpecFail == InitFail /\ [][NextFail]_vars

\* C37: if generate returns the failure status, it did so before spawning a
\* walker, and the contents and lengths of stuck, seed, required_steps and
\* boundary_collisions and all metrics are the same as before the call.
C37_FailureFrame ==
    [][(pc # "failed" /\ pc' = "failed") =>
          /\ pc = "idle"
          /\ ~has_next_spawned' /\ curr' = curr /\ hist' = hist
          /\ stuck' = stuck /\ seed' = seed
          /\ required_steps' = required_steps
          /\ boundary_collisions' = boundary_collisions
          /\ <<max_x, max_y, max_z, max_r_sqd, spawn_diam>>'
               = <<max_x, max_y, max_z, max_r_sqd, spawn_diam>>]_vars

\* generate failed on the reserve of _aggregate after that of _attractor went
\* through
C37_Witness ==
    /\ pc = "failed" /\ _attractor.capacity > VECTOR_INIT_CAPACITY
    /\ _aggregate.capacity = VECTOR_INIT_CAPACITY
    /\ seed = <<>> /\ stuck = <<>> /\ curr = Indet

\* ---- aggregate_alloc, init, aggregate_free --------------------------------
\* In SpecFree the four vector fields hold pointers: Indet before init has
\* written them, Null, or the vector a vector_alloc call returned together
\* with the number of times it has been passed to vector_free.  pc is
\* "allocated" after aggregate_alloc, "initialised" or "init_failed" after
\* init, and "freed" or "aborted" after aggregate_free.
Null == [null |-> TRUE]

Pointer(vec) == [obj |-> vec, released |-> 0]

VectorFields == <<_aggregate, _attractor, _rsteps, _bcolls>>

\* vector_free(vec): both blocks of the vector are released once more
vector_free(ptr) == [ptr EXCEPT !.released = @ + 1]

\* aggregate_free_fields on the four pointers ptrs: every pointer that is not
\* NULL is passed to vector_free and keeps its value
aggregate_free_fields(ptrs) ==
    [i \in 1..4 |-> IF ptrs[i] # Null THEN vector_free(ptrs[i]) ELSE ptrs[i]]

\* free of a block that has been released already is undefined
DoubleFree(ptrs) == \E i \in 1..4 : ptrs[i] # Null /\ ptrs[i].released > 1

\* the pointers init holds after its first k calls of vector_alloc returned a
\* vector and the next one, if any, returned NULL
AllocatedFields(k) ==
    [i \in 1..4 |-> IF i <= k THEN Pointer(vector_alloc) ELSE Null]

\* aggregate_alloc() returned the aggregate; dim, lt, at and stickiness are
\* the init function and the arguments the caller is about to use
InitFree ==
    /\ dim \in {2, 3}
    /\ lt \in {"SQUARE", "TRIANGLE"}
    /\ at \in Attractors(dim)
    /\ stickiness \in Stickiness
    /\ att_size = Indet /\ b_offset = Indet /\ spawn_diam = Indet
    /\ max_x = Indet /\ max_y = Indet /\ max_z = Indet /\ max_r_sqd = Indet
    /\ _aggregate = Indet /\ _attractor = Indet
    /\ _rsteps = Indet /\ _bcolls = Indet
    /\ oom = TRUE
    /\ pc = "allocated" /\ n = 0
    /\ curr = Indet
    /\ steps_to_stick = 0 /\ bcolls = 0 /\ count = 0
    /\ has_next_spawned = FALSE
    /\ attempts = 0 /\ reverts = 0 /\ hist = <<>> /\ called = NoCall
    /\ Seeded(0)
    /\ Silent

\* the assignment of the four pointers ptrs to the vector fields
SetFields(ptrs) ==
    /\ _aggregate' = ptrs[1] /\ _attractor' = ptrs[2]
    /\ _rsteps' = ptrs[3] /\ _bcolls' = ptrs[4]

\* aggregate_2d_init / aggregate_3d_init when k of the four vector_alloc calls
\* return a vector
aggregate_init ==
    /\ pc = "allocated"
    /\ \E k \in 0..4, t \in 0..MaxTime :
         IF k = 4
         THEN /\ SetFields(AllocatedFields(4))
              /\ max_x' = 0 /\ max_y' = 0 /\ max_z' = 0 /\ max_r_sqd' = 0
              /\ b_offset' = B_OFFSET /\ spawn_diam' = B_OFFSET
              /\ att_size' = 1
              /\ rand_state' = t /\ seeded' = t
              /\ pc' = "initialised"
         ELSE /\ SetFields(aggregate_free_fields(AllocatedFields(k)))
              /\ UNCHANGED <<max_x, max_y, max_z, max_r_sqd, b_offset,
                             spawn_diam, att_size, rand_state, seeded>>
              /\ pc' = "init_failed"
    /\ UNCHANGED <<dim, lt, at, stickiness, oom, n, curr, steps_to_stick,
                   bcolls, count, has_next_spawned, histvars, drawn, iovars>>

\* aggregate_free: aggregate_free_fields, then free(agg); after a block has
\* been released twice the process either aborts or goes on
aggregate_free ==
    /\ pc \in {"initialised", "init_failed"}
    /\ SetFields(aggregate_free_fields(VectorFields))
    /\ pc' \in IF DoubleFree(aggregate_free_fields(VectorFields))
               THEN {"freed", "aborted"} ELSE {"freed"}
    /\ UNCHANGED <<dim, lt, at, stickiness, att_size, b_offset, spawn_diam,
                   max_x, max_y, max_z, max_r_sqd, oom, n, curr,
                   steps_to_stick, bcolls, count, has_next_spawned, histvars,
                   prngvars, iovars>>

NextFree == aggregate_init \/ aggregate_free

SpecFree == InitFree /\ [][NextFree]_vars

\* C38: over aggregate_alloc, one init (succeeding, or failing after any
\* number of its four vector allocations) and aggregate_free, every vector
\* that init allocated is released exactly once: never twice, never leaked.
C38_ReleasedOnce ==
    pc \in {"initialised", "init_failed", "freed", "aborted"} =>
        \A i \in 1..4 :
            VectorFields[i] # Null =>
                /\ VectorFields[i].released <= 1
                /\ pc = "freed" => VectorFields[i].released = 1

\* ---- the whole vector interface ---------------------------------------------
\* vector_resize_shrink: a block of the old capacity is obtained with malloc
\* (ok tells whether it is), the first size elements are copied to it and the
\* old block is released.  Copying from, and releasing, a block that has been
\* released already is undefined, as is copying more than capacity elements.
vector_resize_shrink(vec, size, ok) ==
    IF size = vector_size(vec) THEN [vec |-> vec, rc |-> 0, ub |-> FALSE]
    ELSE IF ~ok THEN [vec |-> vec, rc |-> -1, ub |-> FALSE]
    ELSE [vec |-> [capacity |-> vec.capacity,
                   data |-> IF vec.freed
                            THEN [i \in 1..size |-> [indet |-> TRUE]]
                            ELSE SubSeq(vec.data, 1, size),
                   freed |-> FALSE],
          rc |-> 1,
          ub |-> vec.freed \/ size > vec.capacity]

\* k calls of vector_push_back(vec, value) whose return values are ignored
RECURSIVE PushTimes(_, _, _, _)
PushTimes(vec, value, k, ok) ==
    IF k = 0 THEN [vec |-> vec, ub |-> FALSE]
    ELSE LET r == vector_push_back(vec, value, ok)
             rest == PushTimes(r.vec, value, k - 1, ok)
         IN [vec |-> rest.vec, ub |-> r.ub \/ rest.ub]

\* vector_resize_grow
vector_resize_grow(vec, size, value, ok) ==
    IF size = vector_size(vec) THEN [vec |-> vec, rc |-> 0, ub |-> FALSE]
    ELSE LET r == vector_reserve(vec, size, ok)
         IN IF r.rc = -1 THEN [vec |-> r.vec, rc |-> -1, ub |-> r.ub]
            ELSE LET q == PushTimes(r.vec, value, size - vector_size(vec), ok)
                 IN [vec |-> q.vec, rc |-> 1, ub |-> r.ub \/ q.ub]

CallResizeShrink ==
    /\ pc = "idle"
    /\ \E size \in 0..vector_size(_rsteps), ok \in AllocOutcomes :
          VectorCall("resize_shrink", size,
                     vector_resize_shrink(_rsteps, size, ok))

CallResizeGrow ==
    /\ pc = "idle"
    /\ \E size \in vector_size(_rsteps)..MaxVecSize, v \in 1..MaxValue,
          ok \in AllocOutcomes :
          VectorCall("resize_grow", size,
                     vector_resize_grow(_rsteps, size, v, ok))

NextVectorAll == NextVector \/ CallResizeShrink \/ CallResizeGrow

SpecVectorAll == InitVector /\ [][NextVectorAll]_vars

\* C39: after any sequence of vector_push_back, vector_reserve,
\* vector_shrink_to_fit, vector_resize_shrink and vector_resize_grow calls on
\* a vector, a vector of size 0 included, size <= capacity holds and every
\* push_back that returns 1 wrote its element at an index below the capacity
\* in force after the call.
C39_SizeWithinCapacity ==
    /\ vector_size(_rsteps) <= _rsteps.capacity
    /\ (called.op = "push_back" /\ called.ret = 1) =>
          vector_size(called.before) < _rsteps.capacity
====
